---- MODULE Spec2Model ----
(***************************************************************************)
(* Model of the order-status workflow (StaffDashboard) and of the sales    *)
(* analytics aggregation and export (Analytics) of gds-budgetarian, over   *)
(* a hosted document store with the collections orders, users, products.  *)
(*                                                                         *)
(* The specifications share the variables, among them:                     *)
(*   SpecAnalytics  the Analytics view: load, selectors, effect, export    *)
(*   SpecStaff      the StaffDashboard view: fetch and status transitions  *)
(*   SpecRegister   the Registration page: handleRegister and the auth   *)
(*                  service                                                *)
(*   SpecProductForm  the ProductForm page: validate and handleSubmit     *)
(***************************************************************************)
EXTENDS Integers, Sequences, FiniteSets, TLC

VARIABLES
    dbOrders,        \* store: the orders collection, docs in document-id order
    dbUsers,         \* store: the users collection
    dbProducts,      \* store: the products collection
    clock,           \* wall clock in milliseconds (Date.now())
    \* ---- Analytics view ----
    currentUserId,   \* auth.currentUser?.uid at mount
    stats,           \* useState stats
    filterMonth,     \* useState filterMonth
    filterYear,      \* useState filterYear
    allOrders,       \* useState allOrders
    aPc,             \* position of fetchAnalytics
    totalCustomers,  \* local of fetchAnalytics kept across the products await
    effectPending,   \* the filter effect is scheduled (a dependency changed)
    filtered,        \* local `filtered` of the last run of the filter effect
    exportFiltered,  \* local `filteredOrders` of a running exportToExcel
    workbook,        \* the workbook a running exportToExcel has built
    \* ---- StaffDashboard view ----
    orders,          \* useState orders
    loading,         \* useState loading
    selectedStatus,  \* useState selectedStatus
    sPc,             \* position of fetchOrders
    calls,           \* updateOrderStatus calls awaiting their updateDoc
    writes,          \* write requests the hosted store has received
    toasts,          \* notifications emitted by the staff view
    \* ---- a second StaffDashboard view, of another staff member ----
    peerOrders,      \* useState orders of the second view
    peerPc,          \* position of the second view: its fetch, its one call
    peerCalls,       \* the second view's call awaiting its updateDoc
    \* ---- uploadImage ----
    file,            \* argument file: its type, size and name extension
    folder,          \* argument folder
    upPc,            \* position of the uploadImage call
    uploads,         \* storage references uploadBytesResumable was called with
    transferred,     \* snapshot.bytesTransferred of the upload task
    progress,        \* the values onProgress was called with
    stored,          \* the objects the storage bucket holds
    settled,         \* the settlements of the returned promise, in order
    \* ---- Registration page and the auth service ----
    formData,        \* useState formData: email, phone, password, confirmPassword
    error,           \* useState error
    regLoading,      \* useState loading of Registration
    rPc,             \* position of handleRegister
    authUsers,       \* auth service: the emails that have an account
    currentUser,     \* auth.currentUser: the email signed in, or none
    userDocs,        \* documents written to users and verificationTokens
    emails,          \* verification emails sent by emailjs
    location,        \* the route the registration page navigated to
    \* ---- ProductForm page ----
    routeId,         \* useParams id: the product edited, or none when creating
    product,         \* useState product
    imageUrl,        \* useState imageUrl
    errors,          \* useState errors: the fields that carry an error message
    saving,          \* useState loading of ProductForm
    fPc,             \* position of handleSubmit
    productWrites,   \* setDoc requests on products the store has received
    formToasts,      \* notifications emitted by ProductForm
    formLocation     \* the route ProductForm navigated to

storeVars == <<dbOrders, dbUsers, dbProducts, clock>>
analyticsVars == <<currentUserId, stats, filterMonth, filterYear, allOrders, aPc,
                   totalCustomers, effectPending, filtered, exportFiltered, workbook>>
staffVars == <<orders, loading, selectedStatus, sPc, calls, writes, toasts>>
peerVars == <<peerOrders, peerPc, peerCalls>>
uploadVars == <<file, folder, upPc, uploads, transferred, progress, stored, settled>>
regVars == <<formData, error, regLoading, rPc, authUsers, currentUser, userDocs,
             emails, location>>
formVars == <<routeId, product, imageUrl, errors, saving, fPc, productWrites,
              formToasts, formLocation>>
otherVars == <<peerVars, uploadVars, regVars, formVars>>
vars == <<storeVars, analyticsVars, staffVars, otherVars>>

----------------------------------------------------------------------------
(* Bounds of the model *)
NumOrders == 2      \* orders of a scenario with freely chosen status and date
NumUsers == 3       \* user records of a scenario with freely chosen roles
NumMany == 6        \* orders / products of the top-5 scenarios
MaxCalls == 2       \* updateOrderStatus calls of one behaviour

(* Values *)
Absent == "absent"                     \* an absent (undefined) field
Statuses == {"pending", "processing", "shipped", "delivered", "cancelled"}
Roles == {"user", "staff", "admin"}

NoTime == -1          \* toDate's null (and the time of an Invalid Date)
AllSel == -1          \* the selector value "all"
MsPerSecond == 1000   \* raw.seconds * 1000
MsPerMonth == 1000    \* calendar of the model: one month lasts 1000 ms
EpochYear == 1970
TopN == 5             \* slice(0, 5)
NoUid == 0            \* auth.currentUser?.uid is undefined
StartClock == 5000    \* the time the view is mounted, after every stored time

----------------------------------------------------------------------------
(* Stored creation-time shapes: absent, a platform timestamp, a string.    *)
RawAbsent == [kind |-> "absent", seconds |-> 0, nanoseconds |-> 0, parsed |-> NoTime]
RawTs(s, n) == [kind |-> "timestamp", seconds |-> s, nanoseconds |-> n, parsed |-> NoTime]
\* a string; parsed is what new Date(text).getTime() yields (NoTime for NaN)
RawStr(ms) == [kind |-> "string", seconds |-> 0, nanoseconds |-> 0, parsed |-> ms]
\* a Date instance
RawDate(ms) == [kind |-> "date", seconds |-> 0, nanoseconds |-> 0, parsed |-> ms]

\* toDate: Date | Timestamp | string | undefined -> Date | null (as its ms)
toDate(raw) ==
    IF raw.kind = "absent" THEN NoTime
    ELSE IF raw.kind = "date" THEN raw.parsed
    ELSE IF raw.kind = "timestamp" THEN raw.seconds * MsPerSecond
    ELSE raw.parsed

getMonth(ms) == (ms \div MsPerMonth) % 12
getFullYear(ms) == EpochYear + (ms \div (12 * MsPerMonth))

Range(s) == {s[i] : i \in DOMAIN s}

Min(a, b) == IF a < b THEN a ELSE b

----------------------------------------------------------------------------
(* Analytics: the pure parts *)

\* snapshot.docs.map(doc => ({id: doc.id, ...doc.data()})): the docs in id order
SnapshotDocs(coll) == coll

\* mutant: either selector matching is enough
MatchesSelectors_Or(o, fm, fy) ==
    LET date == toDate(o.createdAt) IN
    IF date = NoTime THEN FALSE
    ELSE \/ (fm # AllSel /\ getMonth(date) = fm)
         \/ (fy # AllSel /\ getFullYear(date) = fy)

\* the filter callback of the effect
MatchesSelectors(o, fm, fy) ==
    LET date == toDate(o.createdAt) IN
    IF date = NoTime THEN FALSE
    ELSE /\ (fm = AllSel \/ getMonth(date) = fm)
         /\ (fy = AllSel \/ getFullYear(date) = fy)

\* mutant: the callback runs even when both selectors are "all"
FilterByDate_Always(os, fm, fy) ==
    SelectSeq(os, LAMBDA o : MatchesSelectors(o, fm, fy))

\* step 1 of the effect: filter by month/year
FilterByDate(os, fm, fy) ==
    IF fm # AllSel \/ fy # AllSel
    THEN SelectSeq(os, LAMBDA o : MatchesSelectors(o, fm, fy))
    ELSE os

\* step 2 of the effect: exclude cancelled orders
NonCancelled(os) == SelectSeq(os, LAMBDA o : o.status # "cancelled")

\* reduce((sum, o) => sum + (typeof o.total === "number" ? o.total : 0), 0)
RECURSIVE SumTotals(_)
SumTotals(os) == IF os = <<>> THEN 0 ELSE os[1].total + SumTotals(Tail(os))

\* mutant: the load counts every order
FetchNonCancelled_KeepAll(os) == os

\* fetchAnalytics: orders.filter(o => o.status !== "cancelled")
FetchNonCancelled(os) == SelectSeq(os, LAMBDA o : o.status # "cancelled")

\* fetchAnalytics: nonCancelled.reduce((sum, order) => sum + (order.total || 0), 0)
RECURSIVE FetchRevenue(_)
FetchRevenue(os) == IF os = <<>> THEN 0 ELSE os[1].total + FetchRevenue(Tail(os))

\* mutant: the caller's own record is counted
CountCustomers_IncludesCaller(users, uid) ==
    Len(SelectSeq(users, LAMBDA u : u.role = "user"))

\* customers.filter(u => (!currentUserId || u.id !== currentUserId) && u.role === "user").length
CountCustomers(users, uid) ==
    Len(SelectSeq(users, LAMBDA u : /\ (uid = NoUid \/ u.id # uid)
                                    /\ u.role = "user"))

\* (date?.getTime() || 0) of the recent-orders comparator
RecentKey(o) ==
    LET d == toDate(o.createdAt) IN IF d = NoTime THEN 0 ELSE d

\* Array.prototype.sort is stable: x goes after every element that does not
\* compare after it
InsertRecent(sorted, x) ==
    LET k == Cardinality({i \in 1..Len(sorted) : RecentKey(sorted[i]) >= RecentKey(x)})
    IN  SubSeq(sorted, 1, k) \o <<x>> \o SubSeq(sorted, k + 1, Len(sorted))

RECURSIVE SortRecent(_)
SortRecent(os) ==
    IF os = <<>> THEN <<>>
    ELSE InsertRecent(SortRecent(SubSeq(os, 1, Len(os) - 1)), os[Len(os)])

\* mutant: the first five in store order
RecentOrders_Unsorted(os) == SubSeq(os, 1, Min(TopN, Len(os)))

\* orders.slice().sort(...).slice(0, 5)
RecentOrders(os) ==
    LET sorted == SortRecent(os) IN SubSeq(sorted, 1, Min(TopN, Len(sorted)))

\* all line items of the given orders, in order
RECURSIVE ItemsOf(_)
ItemsOf(os) == IF os = <<>> THEN <<>> ELSE os[1].items \o ItemsOf(Tail(os))

RECURSIVE SumQuantity(_)
SumQuantity(items) ==
    IF items = <<>> THEN 0 ELSE items[1].quantity + SumQuantity(Tail(items))

\* mutant: every line item counts as one unit
ProductSalesGet_CountsLines(os, pid) ==
    Len(SelectSeq(ItemsOf(os), LAMBDA it : it.productId = pid))

\* productSales.get(pid) || 0 after the forEach over the non-cancelled orders
ProductSalesGet(os, pid) ==
    SumQuantity(SelectSeq(ItemsOf(os), LAMBDA it : it.productId = pid))

InsertTop(sorted, x) ==
    LET k == Cardinality({i \in 1..Len(sorted) : sorted[i].totalSold >= x.totalSold})
    IN  SubSeq(sorted, 1, k) \o <<x>> \o SubSeq(sorted, k + 1, Len(sorted))

RECURSIVE SortTop(_)
SortTop(ps) ==
    IF ps = <<>> THEN <<>>
    ELSE InsertTop(SortTop(SubSeq(ps, 1, Len(ps) - 1)), ps[Len(ps)])

\* mutant: the first five products, not the five most sold
TopProducts_SliceFirst(products, nonCancelled) ==
    LET withSold == [i \in 1..Len(products) |->
                        [id |-> products[i].id,
                         totalSold |-> ProductSalesGet(nonCancelled, products[i].id)]]
    IN  SortTop(SubSeq(withSold, 1, Min(TopN, Len(withSold))))

\* products.map(p => ({...p, totalSold})).sort(desc).slice(0, 5)
TopProducts(products, nonCancelled) ==
    LET withSold == [i \in 1..Len(products) |->
                        [id |-> products[i].id,
                         totalSold |-> ProductSalesGet(nonCancelled, products[i].id)]]
        sorted == SortTop(withSold)
    IN  SubSeq(sorted, 1, Min(TopN, Len(sorted)))

\* the month / year dropdown options
monthOptions ==
    {getMonth(toDate(allOrders[i].createdAt)) :
        i \in {j \in 1..Len(allOrders) : toDate(allOrders[j].createdAt) # NoTime}}
yearOptions ==
    {getFullYear(toDate(allOrders[i].createdAt)) :
        i \in {j \in 1..Len(allOrders) : toDate(allOrders[j].createdAt) # NoTime}}

----------------------------------------------------------------------------
(* Analytics: exportToExcel's pure parts *)

\* 1) filter orders by month/year
ExportFilterByDate(os, fm, fy) ==
    IF fm # AllSel \/ fy # AllSel
    THEN SelectSeq(os, LAMBDA o :
            LET date == toDate(o.createdAt) IN
            IF date = NoTime THEN FALSE
            ELSE /\ (fm = AllSel \/ getMonth(date) = fm)
                 /\ (fy = AllSel \/ getFullYear(date) = fy))
    ELSE os

\* mutant: the export keeps the cancelled orders
ExportableOrders_KeepAll(os) == os

\* 2) exclude cancelled orders from export calculations
ExportableOrders(os) == SelectSeq(os, LAMBDA o : o.status # "cancelled")

\* x.toLocaleString("en-PH", {minimumFractionDigits: 2}) of the quotient n / d:
\* the nearest number with three fraction digits, as thousandths
FormatQuotient(n, d) == (2 * 1000 * n + d) \div (2 * d)

\* the literal "P0.00", as thousandths
ZeroLiteral == 0

\* mutant: the guard is off by one
AverageOrderValue_OffByOne(st) ==
    IF st.totalOrders > 1
    THEN FormatQuotient(st.totalRevenue, st.totalOrders)
    ELSE ZeroLiteral

\* stats.totalOrders > 0 ? format(totalRevenue / totalOrders) : "P0.00"
AverageOrderValue(st) ==
    IF st.totalOrders > 0
    THEN FormatQuotient(st.totalRevenue, st.totalOrders)
    ELSE ZeroLiteral

SummaryData(st) ==
    [totalRevenue |-> st.totalRevenue,
     totalOrders |-> st.totalOrders,
     totalCustomers |-> st.totalCustomers,
     totalProducts |-> st.totalProducts,
     averageOrderValue |-> AverageOrderValue(st)]

\* one row per exportable order (the header row is not modelled)
OrdersData(exportable) ==
    [i \in 1..Len(exportable) |->
        [id |-> exportable[i].id,
         date |-> toDate(exportable[i].createdAt),
         status |-> IF exportable[i].status = Absent THEN "pending"
                    ELSE exportable[i].status,
         total |-> exportable[i].total,
         itemsCount |-> Len(exportable[i].items)]]

\* the keys of productSalesMap, in insertion order
RECURSIVE MapKeys(_)
MapKeys(items) ==
    IF items = <<>> THEN <<>>
    ELSE LET before == MapKeys(SubSeq(items, 1, Len(items) - 1))
             pid == items[Len(items)].productId
         IN  IF \E i \in 1..Len(before) : before[i] = pid
             THEN before ELSE Append(before, pid)

RECURSIVE SumLineRevenue(_)
SumLineRevenue(items) ==
    IF items = <<>> THEN 0
    ELSE items[1].price * items[1].quantity + SumLineRevenue(Tail(items))

InsertSales(sorted, x) ==
    LET k == Cardinality({i \in 1..Len(sorted) : sorted[i].quantity >= x.quantity})
    IN  SubSeq(sorted, 1, k) \o <<x>> \o SubSeq(sorted, k + 1, Len(sorted))

\* mutant: the entries stay in the map's insertion order
SortSales_InsertionOrder(rows) == rows

RECURSIVE SortSales(_)
SortSales(rows) ==
    IF rows = <<>> THEN <<>>
    ELSE InsertSales(SortSales(SubSeq(rows, 1, Len(rows) - 1)), rows[Len(rows)])

\* Array.from(productSalesMap.entries()).sort(desc by quantity)
ProductSalesData(exportable) ==
    LET items == ItemsOf(exportable)
        keys == MapKeys(items)
        entries == [i \in 1..Len(keys) |->
            LET mine == SelectSeq(items, LAMBDA it : it.productId = keys[i]) IN
            [productId |-> keys[i],
             quantity |-> SumQuantity(mine),
             revenue |-> SumLineRevenue(mine)]]
    IN  SortSales(entries)

NoWorkbook ==
    [built |-> FALSE,
     summary |-> [totalRevenue |-> 0, totalOrders |-> 0, totalCustomers |-> 0,
                  totalProducts |-> 0, averageOrderValue |-> 0],
     ordersData |-> <<>>,
     productSalesData |-> <<>>]

----------------------------------------------------------------------------
(* Analytics: the actions *)

DefaultStats ==
    [totalRevenue |-> 0, totalOrders |-> 0, totalCustomers |-> 0,
     totalProducts |-> 0, recentOrders |-> <<>>, topProducts |-> <<>>]

\* the handlers of user events run on a rendered view: React has flushed the
\* effects of the last render, and no export handler is running
Quiet == ~effectPending /\ ~workbook.built

\* await getDocs(collection(db, "orders")) resolves; setAllOrders(orders)
OrdersArrive ==
    /\ aPc = "orders" /\ Quiet
    /\ allOrders' = SnapshotDocs(dbOrders)
    /\ effectPending' = TRUE
    /\ aPc' = "users"
    /\ UNCHANGED <<storeVars, staffVars, otherVars, currentUserId, stats, filterMonth,
                   filterYear, totalCustomers, filtered, exportFiltered, workbook>>

\* await getDocs(collection(db, "users")) resolves
UsersArrive ==
    /\ aPc = "users" /\ Quiet
    /\ totalCustomers' = CountCustomers(SnapshotDocs(dbUsers), currentUserId)
    /\ aPc' = "products"
    /\ UNCHANGED <<storeVars, staffVars, otherVars, currentUserId, stats, filterMonth,
                   filterYear, allOrders, effectPending, filtered, exportFiltered,
                   workbook>>

\* await getDocs(collection(db, "products")) resolves; the rest of the try block
ProductsArrive ==
    /\ aPc = "products" /\ Quiet
    /\ LET products == SnapshotDocs(dbProducts)
           nonCancelled == FetchNonCancelled(allOrders)
       IN  stats' = [totalRevenue |-> FetchRevenue(nonCancelled),
                     totalOrders |-> Len(nonCancelled),
                     totalCustomers |-> totalCustomers,
                     totalProducts |-> Len(products),
                     recentOrders |-> RecentOrders(allOrders),
                     topProducts |-> TopProducts(products, nonCancelled)]
    /\ aPc' = "done"
    /\ UNCHANGED <<storeVars, staffVars, otherVars, currentUserId, filterMonth, filterYear,
                   allOrders, totalCustomers, effectPending, filtered,
                   exportFiltered, workbook>>

\* one of the three getDocs rejects: catch (error) { console.error(...) }
FetchFails ==
    /\ aPc \in {"orders", "users", "products"} /\ Quiet
    /\ aPc' = "failed"
    /\ UNCHANGED <<storeVars, staffVars, otherVars, currentUserId, stats, filterMonth,
                   filterYear, allOrders, totalCustomers, effectPending, filtered,
                   exportFiltered, workbook>>

\* mutant: setStats without the spread of the previous stats
FilterEffect_DropsOtherStats ==
    /\ effectPending
    /\ effectPending' = FALSE
    /\ IF Len(allOrders) = 0
       THEN UNCHANGED <<filtered, stats>>
       ELSE LET f == FilterByDate(allOrders, filterMonth, filterYear)
                nonCancelled == NonCancelled(f)
            IN  /\ filtered' = f
                /\ stats' = [DefaultStats EXCEPT !.totalRevenue = SumTotals(nonCancelled),
                                                 !.totalOrders = Len(nonCancelled)]
    /\ UNCHANGED <<storeVars, staffVars, otherVars, currentUserId, filterMonth, filterYear,
                   allOrders, aPc, totalCustomers, exportFiltered, workbook>>

\* useEffect(..., [filterMonth, filterYear, allOrders])
FilterEffect ==
    /\ effectPending
    /\ effectPending' = FALSE
    /\ IF Len(allOrders) = 0
       THEN UNCHANGED <<filtered, stats>>
       ELSE LET f == FilterByDate(allOrders, filterMonth, filterYear)
                nonCancelled == NonCancelled(f)
            IN  /\ filtered' = f
                /\ stats' = [stats EXCEPT !.totalRevenue = SumTotals(nonCancelled),
                                          !.totalOrders = Len(nonCancelled)]
    /\ UNCHANGED <<storeVars, staffVars, otherVars, currentUserId, filterMonth, filterYear,
                   allOrders, aPc, totalCustomers, exportFiltered, workbook>>

\* onChange of the month select: setFilterMonth(e.target.value)
SetFilterMonth(m) ==
    /\ aPc # "unmounted" /\ Quiet
    /\ m # filterMonth
    /\ filterMonth' = m
    /\ effectPending' = TRUE
    /\ UNCHANGED <<storeVars, staffVars, otherVars, currentUserId, stats, filterYear,
                   allOrders, aPc, totalCustomers, filtered, exportFiltered, workbook>>

\* onChange of the year select: setFilterYear(e.target.value)
SetFilterYear(y) ==
    /\ aPc # "unmounted" /\ Quiet
    /\ y # filterYear
    /\ filterYear' = y
    /\ effectPending' = TRUE
    /\ UNCHANGED <<storeVars, staffVars, otherVars, currentUserId, stats, filterMonth,
                   allOrders, aPc, totalCustomers, filtered, exportFiltered, workbook>>

\* exportToExcel up to the three book_append_sheet calls
exportToExcel ==
    /\ aPc # "unmounted" /\ Quiet
    /\ LET fo == ExportFilterByDate(allOrders, filterMonth, filterYear)
           exportable == ExportableOrders(fo)
       IN  /\ exportFiltered' = fo
           /\ workbook' = [built |-> TRUE,
                           summary |-> SummaryData(stats),
                           ordersData |-> OrdersData(exportable),
                           productSalesData |-> ProductSalesData(exportable)]
    /\ UNCHANGED <<storeVars, staffVars, otherVars, currentUserId, stats, filterMonth,
                   filterYear, allOrders, aPc, totalCustomers, effectPending, filtered>>

\* XLSX.writeFile(wb, fileName): the file leaves the view, the handler returns
WriteFile ==
    /\ workbook.built
    /\ workbook' = NoWorkbook
    /\ exportFiltered' = <<>>
    /\ UNCHANGED <<storeVars, staffVars, otherVars, currentUserId, stats, filterMonth,
                   filterYear, allOrders, aPc, totalCustomers, effectPending, filtered>>

NextAnalytics ==
    \/ OrdersArrive
    \/ UsersArrive
    \/ ProductsArrive
    \/ FetchFails
    \/ FilterEffect
    \/ \E m \in monthOptions \cup {AllSel} : SetFilterMonth(m)
    \/ \E y \in yearOptions \cup {AllSel} : SetFilterYear(y)
    \/ exportToExcel
    \/ WriteFile

----------------------------------------------------------------------------
(* The initial states: the store's content is drawn from scenario families *)

Item(p, q, pr) == [productId |-> p, quantity |-> q, price |-> pr]

MkOrder(i, st, cr, tot, its) ==
    [id |-> i, status |-> st, createdAt |-> cr, updatedAt |-> cr,
     total |-> tot, items |-> its]

Products(n) == [p \in 1..n |-> [id |-> p]]

CreatedPool ==
    {RawAbsent, RawTs(0, 0), RawTs(1, 0), RawTs(12, 0), RawStr(13 * MsPerMonth),
     RawStr(NoTime)}

\* up to NumOrders orders, each with any status of the pool and any creation
\* time of the pool; order i has total 2^(i-1), so a sum identifies its terms
OrderScenarios ==
    UNION {
        {[orders |-> [i \in 1..n |->
                        MkOrder(i, st[i], cr[i], 2 ^ (i - 1),
                                <<Item(i, 1, 2 ^ (i - 1))>>)],
          users |-> <<[id |-> 1, role |-> "user"], [id |-> 2, role |-> "admin"]>>,
          products |-> Products(2),
          uid |-> 2]
         : st \in [1..n -> {"delivered", "cancelled"}], cr \in [1..n -> CreatedPool]}
        : n \in 0..NumOrders}

\* NumOrders + 1 orders in process, each with any creation time of the pool
PeriodScenarios ==
    {[orders |-> [i \in 1..(NumOrders + 1) |->
                    MkOrder(i, "processing", cr[i], 2 ^ (i - 1), <<>>)],
      users |-> <<[id |-> 1, role |-> "user"]>>,
      products |-> Products(1),
      uid |-> 1]
     : cr \in [1..(NumOrders + 1) -> CreatedPool]}

\* NumUsers users with any roles; the caller is absent, the first user, or a
\* user without a record
UserScenarios ==
    {[orders |-> <<MkOrder(1, "delivered", RawTs(1, 0), 1, <<Item(1, 1, 1)>>)>>,
      users |-> [i \in 1..NumUsers |-> [id |-> i, role |-> r[i]]],
      products |-> Products(1),
      uid |-> u]
     : r \in [1..NumUsers -> Roles], u \in {NoUid, 1, NumUsers + 1}}

\* NumMany products; order p sells 1 or 2 units of product p unless it is
\* cancelled; a last order sells product 2 again and an unknown product
TopScenarios ==
    {[orders |-> [i \in 1..(NumMany + 1) |->
                    IF i <= NumMany
                    THEN MkOrder(i, st[i], RawTs(i, 0), 1, <<Item(i, 1 + (i % 2), 1)>>)
                    ELSE MkOrder(i, "pending", RawTs(i, 0), 3,
                                 <<Item(2, 1, 1), Item(NumMany + 1, 2, 1)>>)],
      users |-> <<[id |-> 1, role |-> "user"]>>,
      products |-> Products(NumMany),
      uid |-> NoUid]
     : st \in [1..NumMany -> {"delivered", "cancelled"}]}

RecentPool == {RawAbsent, RawTs(0, 0), RawTs(2, 0), RawTs(7, 0)}

\* NumMany orders: the first three with any creation time of the pool, the
\* others at seconds 1, 2, 3, ...; the first one is cancelled
RecentScenarios ==
    {[orders |-> [i \in 1..NumMany |->
                    MkOrder(i, IF i = 1 THEN "cancelled" ELSE "shipped",
                            IF i <= 3 THEN cr[i] ELSE RawTs(i - 3, 0), 1, <<>>)],
      users |-> <<[id |-> 1, role |-> "user"]>>,
      products |-> Products(1),
      uid |-> NoUid]
     : cr \in [1..3 -> RecentPool]}

\* two products; a delivered order of one month sells 2 units of product 1, a
\* pending order of another month sells 1 more and 3 units of a product that
\* is not in the collection, a cancelled order holds 4 units of product 1
SalesScenarios ==
    {[orders |-> <<MkOrder(1, "delivered", RawTs(1, 0), 1, <<Item(1, 2, 1)>>),
                   MkOrder(2, "pending", RawStr(13 * MsPerMonth), 2,
                           <<Item(1, 1, 1), Item(3, 3, 1)>>),
                   MkOrder(3, "cancelled", RawTs(1, 0), 4, <<Item(1, 4, 1)>>)>>,
      users |-> <<[id |-> 1, role |-> "user"]>>,
      products |-> Products(2),
      uid |-> NoUid]}

Scenarios ==
    OrderScenarios \cup PeriodScenarios \cup UserScenarios \cup TopScenarios
    \cup RecentScenarios \cup SalesScenarios

\* toast.success / toast.error: the notifications emitted so far, counted
Messages ==
    {"Failed to load orders", "Order status updated", "Order status updated to",
     "Failed to update order status"}
NoToasts == [m \in Messages |-> 0]
Toast(ts, m) == [ts EXCEPT ![m] = @ + 1]

StaffUnmounted ==
    /\ orders = <<>>
    /\ loading = TRUE
    /\ selectedStatus = "all"
    /\ sPc = "unmounted"
    /\ calls = {}
    /\ writes = <<>>
    /\ toasts = NoToasts

\* no second staff view is open
PeerUnmounted ==
    /\ peerOrders = <<>>
    /\ peerPc = "unmounted"
    /\ peerCalls = {}

\* a storage reference: folder/timestamp_random.extension
Ref(f, t, r, e) == [folder |-> f, timestamp |-> t, random |-> r, ext |-> e]

\* a File: its MIME type as the sequence of its segments, its size in bytes,
\* the extension of its name
File(t, z, e) == [type |-> t, size |-> z, ext |-> e]

\* uploadImage is not called
UploadIdle ==
    /\ file = File(<<>>, 0, "")
    /\ folder = ""
    /\ upPc = "idle"
    /\ uploads = <<>>
    /\ transferred = 0
    /\ progress = <<>>
    /\ stored = {}
    /\ settled = <<>>

\* "+63", the prefix of a Philippine number, as its characters
Plus63 == <<"+", "6", "3">>

\* auth.currentUser is null
NoUser == ""

\* useState({ username: "", email: "", phone: "+63", address: "", password: "",
\* confirmPassword: "" }); username and address are read by no check
DefaultFormData ==
    [email |-> "", phone |-> Plus63, password |-> <<>>, confirmPassword |-> <<>>]

\* the Registration page is not mounted
RegistrationUnmounted ==
    /\ formData = DefaultFormData
    /\ error = ""
    /\ regLoading = FALSE
    /\ rPc = "unmounted"
    /\ authUsers = {}
    /\ currentUser = NoUser
    /\ userDocs = {}
    /\ emails = {}
    /\ location = "Registration"

\* useParams gives no id: the form creates a product
NoProductId == 0

\* useState<Partial<Product>>({ name: '', description: '', price: 0, category: '',
\* tags: [], images: [], isSale: false, isFeatured: false })
DefaultProduct ==
    [name |-> <<>>, description |-> <<>>, price |-> 0, category |-> "",
     tags |-> <<>>, images |-> <<>>]

\* the ProductForm page is not mounted
ProductFormUnmounted ==
    /\ routeId = NoProductId
    /\ product = DefaultProduct
    /\ imageUrl = <<>>
    /\ errors = {}
    /\ saving = FALSE
    /\ fPc = "unmounted"
    /\ productWrites = <<>>
    /\ formToasts = <<>>
    /\ formLocation = "ProductForm"

\* Analytics is mounted: the mount effect has called fetchAnalytics
InitAnalytics ==
    /\ \E sc \in Scenarios :
        /\ dbOrders = sc.orders
        /\ dbUsers = sc.users
        /\ dbProducts = sc.products
        /\ currentUserId = sc.uid
    /\ clock = StartClock
    /\ stats = DefaultStats
    /\ filterMonth = AllSel
    /\ filterYear = AllSel
    /\ allOrders = <<>>
    /\ aPc = "orders"
    /\ totalCustomers = 0
    /\ effectPending = FALSE
    /\ filtered = <<>>
    /\ exportFiltered = <<>>
    /\ workbook = NoWorkbook
    /\ StaffUnmounted
    /\ PeerUnmounted
    /\ UploadIdle
    /\ RegistrationUnmounted
    /\ ProductFormUnmounted

SpecAnalytics == InitAnalytics /\ [][NextAnalytics]_vars

----------------------------------------------------------------------------
(* StaffDashboard *)

\* Timestamp.toDate(): milliseconds of a stored timestamp
TimestampToDate(ts) == ts.seconds * MsPerSecond + (ts.nanoseconds \div 1000000)

\* Timestamp.now(): the platform timestamp of the current time
TimestampNow(ms) ==
    RawTs(ms \div MsPerSecond, (ms % MsPerSecond) * 1000000)

\* mutant: no fallback to the current time, an absent field becomes the epoch
DateOrNow_Epoch(raw, now) ==
    IF raw.kind = "absent" THEN 0 ELSE TimestampToDate(raw)

\* data.createdAt?.toDate() || new Date()
DateOrNow(raw, now) ==
    IF raw.kind = "absent" THEN now ELSE TimestampToDate(raw)

\* a field that is neither absent nor a Timestamp has no toDate(): TypeError
Convertible(raw) == raw.kind \in {"absent", "timestamp"}

InsertByCreated(sorted, x) ==
    LET k == Cardinality({i \in 1..Len(sorted) : sorted[i].createdAt >= x.createdAt})
    IN  SubSeq(sorted, 1, k) \o <<x>> \o SubSeq(sorted, k + 1, Len(sorted))

\* ordersData.sort((a, b) => b.createdAt.getTime() - a.createdAt.getTime())
RECURSIVE SortByCreated(_)
SortByCreated(os) ==
    IF os = <<>> THEN <<>>
    ELSE InsertByCreated(SortByCreated(SubSeq(os, 1, Len(os) - 1)), os[Len(os)])

\* snapshot.docs.map(doc => ({...data, id, createdAt, updatedAt}))
OrdersData_Staff(docs, now) ==
    [i \in 1..Len(docs) |->
        [docs[i] EXCEPT !.createdAt = DateOrNow(docs[i].createdAt, now),
                        !.updatedAt = DateOrNow(docs[i].updatedAt, now)]]

\* mutant: the map forgets the id test
MapStatus_AllOrders(os, orderId, newStatus, now) ==
    [i \in 1..Len(os) |-> [os[i] EXCEPT !.status = newStatus, !.updatedAt = now]]

\* orders.map(order => order.id === orderId ? {...order, status, updatedAt} : order)
MapStatus(os, orderId, newStatus, now) ==
    [i \in 1..Len(os) |->
        IF os[i].id = orderId
        THEN [os[i] EXCEPT !.status = newStatus, !.updatedAt = now]
        ELSE os[i]]

\* updateDoc(orderRef, data): the named fields of the document are replaced
ApplyUpdate(coll, w) ==
    [i \in 1..Len(coll) |->
        IF coll[i].id = w.orderId
        THEN [coll[i] EXCEPT !.status = w.data.status,
                             !.updatedAt = w.data.updatedAt]
        ELSE coll[i]]

\* the values of the status filter the model selects
FilterChoices == {"all", "pending", "cancelled"}

\* the second argument of updateDoc: { status: newStatus, updatedAt: Timestamp.now() }
UpdateData(newStatus, now) == [status |-> newStatus, updatedAt |-> TimestampNow(now)]

\* mutant: the status filter is not applied
StaffFilteredOrders_NoFilter == SortByCreated(orders)

\* the list the view renders
StaffFilteredOrders ==
    SortByCreated(IF selectedStatus = "all" THEN orders
                  ELSE SelectSeq(orders, LAMBDA o : o.status = selectedStatus))

\* the orders whose controls are on screen
Rendered == IF loading THEN {} ELSE {StaffFilteredOrders[i].id : i \in 1..Len(StaffFilteredOrders)}

OrderById(os, id) == CHOOSE o \in Range(os) : o.id = id

\* order.status || 'pending'
Displayed(o) == IF o.status = Absent THEN "pending" ELSE o.status

\* await getDocs(ordersRef) resolves: map, sort, setOrders; finally setLoading(false)
FetchOrdersOk ==
    /\ sPc = "fetching"
    /\ \A i \in 1..Len(dbOrders) :
          Convertible(dbOrders[i].createdAt) /\ Convertible(dbOrders[i].updatedAt)
    /\ clock' = clock + 1
    /\ orders' = SortByCreated(OrdersData_Staff(SnapshotDocs(dbOrders), clock'))
    /\ loading' = FALSE
    /\ sPc' = "idle"
    /\ UNCHANGED <<dbOrders, dbUsers, dbProducts, analyticsVars, otherVars, selectedStatus,
                   calls, writes, toasts>>

\* mutant: the catch block issues the read again
FetchOrdersFails_Retry ==
    /\ sPc = "fetching"
    /\ clock' = clock + 1
    /\ toasts' = Toast(toasts, "Failed to load orders")
    /\ loading' = TRUE
    /\ sPc' = "fetching"
    /\ UNCHANGED <<dbOrders, dbUsers, dbProducts, analyticsVars, otherVars, orders,
                   selectedStatus, calls, writes>>

\* mutant: no finally block, a failed read leaves the loading flag set
FetchOrdersFails_NoFinally ==
    /\ sPc = "fetching"
    /\ clock' = clock + 1
    /\ toasts' = Toast(toasts, "Failed to load orders")
    /\ sPc' = "idle"
    /\ UNCHANGED <<dbOrders, dbUsers, dbProducts, analyticsVars, otherVars, orders, loading,
                   selectedStatus, calls, writes>>

\* getDocs rejects, or a stored field cannot be converted: catch, then finally
FetchOrdersFails ==
    /\ sPc = "fetching"
    /\ clock' = clock + 1
    /\ toasts' = Toast(toasts, "Failed to load orders")
    /\ loading' = FALSE
    /\ sPc' = "idle"
    /\ UNCHANGED <<dbOrders, dbUsers, dbProducts, analyticsVars, otherVars, orders,
                   selectedStatus, calls, writes>>

\* mutant: a transition table in which delivered and cancelled are terminal
StartUpdate_TerminalStatuses(orderId, newStatus, buttonToast) ==
    /\ Len(writes) < MaxCalls
    /\ orderId \in Rendered
    /\ OrderById(orders, orderId).status \notin {"delivered", "cancelled"}
    /\ clock' = clock + 1
    /\ LET w == [call |-> Len(writes) + 1,
                 orderId |-> orderId,
                 data |-> UpdateData(newStatus, clock')]
       IN  /\ writes' = Append(writes, w)
           /\ calls' = calls \cup {[call |-> w.call, orderId |-> orderId,
                                    newStatus |-> newStatus, closure |-> orders]}
    /\ toasts' = IF buttonToast THEN Toast(toasts, "Order status updated") ELSE toasts
    /\ UNCHANGED <<dbOrders, dbUsers, dbProducts, analyticsVars, otherVars, orders, loading,
                   selectedStatus, sPc>>

\* updateOrderStatus(orderId, newStatus) up to its await: the write is sent
StartUpdate(orderId, newStatus, buttonToast) ==
    /\ Len(writes) < MaxCalls
    /\ orderId \in Rendered
    /\ clock' = clock + 1
    /\ LET w == [call |-> Len(writes) + 1,
                 orderId |-> orderId,
                 data |-> UpdateData(newStatus, clock')]
       IN  /\ writes' = Append(writes, w)
           /\ calls' = calls \cup {[call |-> w.call, orderId |-> orderId,
                                    newStatus |-> newStatus, closure |-> orders]}
    /\ toasts' = IF buttonToast THEN Toast(toasts, "Order status updated") ELSE toasts
    /\ UNCHANGED <<dbOrders, dbUsers, dbProducts, analyticsVars, otherVars, orders, loading,
                   selectedStatus, sPc>>

\* onChange of an order's status select: another option than the shown one
SelectStatus ==
    \E id \in Rendered, s \in Statuses :
        /\ s # Displayed(OrderById(orders, id))
        /\ StartUpdate(id, s, FALSE)

\* onClick of an order's Update button
ClickUpdate ==
    \E id \in Rendered :
        StartUpdate(id, Displayed(OrderById(orders, id)), TRUE)

\* mutant: the write is accepted only if the stored status is still the one
\* the call started from (a version check)
UpdateSucceeds_VersionCheck(c) ==
    /\ c \in calls
    /\ OrderById(dbOrders, c.orderId).status = OrderById(c.closure, c.orderId).status
    /\ clock' = clock + 1
    /\ dbOrders' = ApplyUpdate(dbOrders, writes[c.call])
    /\ orders' = MapStatus(c.closure, c.orderId, c.newStatus, clock')
    /\ toasts' = Toast(toasts, "Order status updated to")
    /\ calls' = calls \ {c}
    /\ UNCHANGED <<dbUsers, dbProducts, analyticsVars, otherVars, loading, selectedStatus,
                   sPc, writes>>

\* await updateDoc resolves: setOrders(orders.map(...)); toast.success
UpdateSucceeds(c) ==
    /\ c \in calls
    /\ clock' = clock + 1
    /\ dbOrders' = ApplyUpdate(dbOrders, writes[c.call])
    /\ orders' = MapStatus(c.closure, c.orderId, c.newStatus, clock')
    /\ toasts' = Toast(toasts, "Order status updated to")
    /\ calls' = calls \ {c}
    /\ UNCHANGED <<dbUsers, dbProducts, analyticsVars, otherVars, loading, selectedStatus,
                   sPc, writes>>

\* mutant: the in-memory copy is updated before the write is known to succeed
UpdateFails_Optimistic(c) ==
    /\ c \in calls
    /\ clock' = clock + 1
    /\ toasts' = Toast(toasts, "Failed to update order status")
    /\ orders' = MapStatus(c.closure, c.orderId, c.newStatus, clock')
    /\ calls' = calls \ {c}
    /\ UNCHANGED <<dbOrders, dbUsers, dbProducts, analyticsVars, otherVars, loading,
                   selectedStatus, sPc, writes>>

\* await updateDoc rejects: catch; toast.error
UpdateFails(c) ==
    /\ c \in calls
    /\ clock' = clock + 1
    /\ toasts' = Toast(toasts, "Failed to update order status")
    /\ calls' = calls \ {c}
    /\ UNCHANGED <<dbOrders, dbUsers, dbProducts, analyticsVars, otherVars, orders, loading,
                   selectedStatus, sPc, writes>>

\* onChange of the status filter
SetSelectedStatus(s) ==
    /\ sPc # "unmounted"
    /\ s # selectedStatus
    /\ selectedStatus' = s
    /\ UNCHANGED <<storeVars, analyticsVars, otherVars, orders, loading, sPc, calls, writes, toasts>>

NextStaff ==
    \/ FetchOrdersOk
    \/ FetchOrdersFails
    \/ SelectStatus
    \/ ClickUpdate
    \/ \E c \in calls : UpdateSucceeds(c)
    \/ \E c \in calls : UpdateFails(c)
    \/ \E s \in FilterChoices : SetSelectedStatus(s)

AnalyticsUnmounted ==
    /\ currentUserId = NoUid
    /\ stats = DefaultStats
    /\ filterMonth = AllSel
    /\ filterYear = AllSel
    /\ allOrders = <<>>
    /\ aPc = "unmounted"
    /\ totalCustomers = 0
    /\ effectPending = FALSE
    /\ filtered = <<>>
    /\ exportFiltered = <<>>
    /\ workbook = NoWorkbook

\* two stored orders: the first shipped or without a status, created at second
\* 2; the second cancelled, created at second 1.5 or at no stored time
StaffScenarios ==
    {<<MkOrder(1, st1, RawTs(2, 0), 1, <<>>), MkOrder(2, "cancelled", cr2, 2, <<>>)>>
     : st1 \in {Absent, "shipped"}, cr2 \in {RawAbsent, RawTs(1, 500000000)}}

\* StaffDashboard is mounted: the mount effect has called fetchOrders
InitStaff ==
    /\ dbOrders \in StaffScenarios
    /\ dbUsers = <<>>
    /\ dbProducts = <<>>
    /\ clock = StartClock
    /\ orders = <<>>
    /\ loading = TRUE
    /\ selectedStatus = "all"
    /\ sPc = "fetching"
    /\ calls = {}
    /\ writes = <<>>
    /\ toasts = NoToasts
    /\ AnalyticsUnmounted
    /\ PeerUnmounted
    /\ UploadIdle
    /\ RegistrationUnmounted
    /\ ProductFormUnmounted

SpecStaff == InitStaff /\ [][NextStaff]_vars

\* the promise of getDocs settles: the read in flight resolves or rejects
ReadSettles == FetchOrdersOk \/ FetchOrdersFails

SpecStaffFair == SpecStaff /\ WF_vars(ReadSettles)

----------------------------------------------------------------------------
(* Two StaffDashboard views over one store: the second view runs the same
   fetchOrders and updateOrderStatus, in another staff member's browser; each
   of the two staff members changes the status of one order *)

\* the orders whose controls are on the second view's screen (filter "all")
PeerRendered ==
    IF peerPc = "idle" THEN {peerOrders[i].id : i \in 1..Len(peerOrders)} ELSE {}

\* fetchOrders of the second view: await getDocs resolves; setOrders
PeerFetchOrdersOk ==
    /\ peerPc = "fetching"
    /\ \A i \in 1..Len(dbOrders) :
          Convertible(dbOrders[i].createdAt) /\ Convertible(dbOrders[i].updatedAt)
    /\ clock' = clock + 1
    /\ peerOrders' = SortByCreated(OrdersData_Staff(SnapshotDocs(dbOrders), clock'))
    /\ peerPc' = "idle"
    /\ UNCHANGED <<dbOrders, dbUsers, dbProducts, analyticsVars, staffVars,
                   regVars, formVars,
                   uploadVars, peerCalls>>

\* onChange of a status select of the second view: updateOrderStatus up to
\* its await
PeerSelectStatus ==
    \E id \in PeerRendered, s \in Statuses :
        /\ s # Displayed(OrderById(peerOrders, id))
        /\ clock' = clock + 1
        /\ peerCalls' = {[orderId |-> id, newStatus |-> s,
                          data |-> UpdateData(s, clock'), closure |-> peerOrders]}
        /\ peerPc' = "updating"
        /\ UNCHANGED <<dbOrders, dbUsers, dbProducts, analyticsVars, staffVars,
                   regVars, formVars,
                       uploadVars, peerOrders>>

\* await updateDoc of the second view resolves: setOrders(orders.map(...))
PeerUpdateSucceeds(c) ==
    /\ c \in peerCalls
    /\ clock' = clock + 1
    /\ dbOrders' = ApplyUpdate(dbOrders, [orderId |-> c.orderId, data |-> c.data])
    /\ peerOrders' = MapStatus(c.closure, c.orderId, c.newStatus, clock')
    /\ peerCalls' = {}
    /\ peerPc' = "done"
    /\ UNCHANGED <<dbUsers, dbProducts, analyticsVars, staffVars, uploadVars,
                   regVars, formVars>>

\* both views are mounted: each mount effect has called fetchOrders
InitTwoViews ==
    /\ dbOrders \in StaffScenarios
    /\ dbUsers = <<>>
    /\ dbProducts = <<>>
    /\ clock = StartClock
    /\ orders = <<>>
    /\ loading = TRUE
    /\ selectedStatus = "all"
    /\ sPc = "fetching"
    /\ calls = {}
    /\ writes = <<>>
    /\ toasts = NoToasts
    /\ peerOrders = <<>>
    /\ peerPc = "fetching"
    /\ peerCalls = {}
    /\ AnalyticsUnmounted
    /\ UploadIdle
    /\ RegistrationUnmounted
    /\ ProductFormUnmounted

\* the first view's staff member chooses a status, once
SelectStatusOnce == writes = <<>> /\ SelectStatus

NextTwoViews ==
    \/ FetchOrdersOk
    \/ SelectStatusOnce
    \/ \E c \in calls : UpdateSucceeds(c)
    \/ PeerFetchOrdersOk
    \/ PeerSelectStatus
    \/ \E c \in peerCalls : PeerUpdateSucceeds(c)

SpecTwoViews == InitTwoViews /\ [][NextTwoViews]_vars

----------------------------------------------------------------------------
(* StaffDashboard: the status filter over any fetched list *)

\* the options of the status filter: "all" and the five statuses
AllFilterChoices == {"all"} \cup Statuses

\* NumOrders + 1 stored orders, each with one of four status values (none,
\* pending, shipped, cancelled) and created at second 1 or 2
FilterScenarios ==
    {[i \in 1..(NumOrders + 1) |-> MkOrder(i, st[i], RawTs(cr[i], 0), 1, <<>>)]
     : st \in [1..(NumOrders + 1) -> {Absent, "pending", "shipped", "cancelled"}],
       cr \in [1..(NumOrders + 1) -> {1, 2}]}

InitFilter ==
    /\ dbOrders \in FilterScenarios
    /\ dbUsers = <<>>
    /\ dbProducts = <<>>
    /\ clock = StartClock
    /\ orders = <<>>
    /\ loading = TRUE
    /\ selectedStatus = "all"
    /\ sPc = "fetching"
    /\ calls = {}
    /\ writes = <<>>
    /\ toasts = NoToasts
    /\ AnalyticsUnmounted
    /\ PeerUnmounted
    /\ UploadIdle
    /\ RegistrationUnmounted
    /\ ProductFormUnmounted

NextFilter ==
    \/ FetchOrdersOk
    \/ FetchOrdersFails
    \/ \E s \in AllFilterChoices : SetSelectedStatus(s)

SpecFilter == InitFilter /\ [][NextFilter]_vars

----------------------------------------------------------------------------
(* uploadImage *)

\* state_changed events of one upload task the model lets happen
MaxProgress == 2

\* const maxSize = 5 * 1024 * 1024
maxSize == 5 * 1024 * 1024

\* file.type.startsWith(prefix), a type being the sequence of its segments
StartsWith(type, prefix) == Len(type) > 0 /\ type[1] = prefix

\* the files uploadImage is called with: image/png, image/jpeg, text/plain,
\* "image" and the empty type; sizes around the limit
FileTypes ==
    {<<"image/", "png">>, <<"image/", "jpeg">>, <<"text/", "plain">>, <<"image">>, <<>>}
FileSizes == {0, 1, maxSize, maxSize + 1}
Files == {File(t, z, "png") : t \in FileTypes, z \in FileSizes}
Folders == {"products", "banners"}

\* Math.random().toString(36).substring(2, 15)
RandomStrings == {"k3x9", "p07q"}

\* (snapshot.bytesTransferred / snapshot.totalBytes) * 100, as a fraction
\* (0 / 0, which is NaN, for an empty file)
Percentage(bytesTransferred, totalBytes) ==
    [num |-> bytesTransferred * 100, den |-> totalBytes]

\* the values of snapshot.bytesTransferred the events of the model report
SnapshotBytes(size) == {size \div 2, size}

\* getDownloadURL(ref): the URL under which the bucket serves the object ref
DownloadURL(ref) ==
    [path |-> <<ref.folder, "/", ref.timestamp, "_", ref.random, ".", ref.ext>>,
     query |-> "alt=media"]
NoURL == [path |-> <<>>, query |-> ""]

\* a settlement of the promise uploadImage returns
Resolved(url) == [kind |-> "resolve", message |-> "", url |-> url]
Rejected(msg) == [kind |-> "reject", message |-> msg, url |-> NoURL]

\* mutant: a file of exactly the maximum size is refused
uploadImage_SizeAtLeast ==
    /\ upPc = "called"
    /\ IF ~StartsWith(file.type, "image/")
       THEN /\ settled' = Append(settled, Rejected("File must be an image"))
            /\ upPc' = "rejected"
            /\ UNCHANGED uploads
       ELSE IF file.size >= maxSize
       THEN /\ settled' = Append(settled, Rejected("Image size must be less than 5MB"))
            /\ upPc' = "rejected"
            /\ UNCHANGED uploads
       ELSE /\ \E r \in RandomStrings :
                  uploads' = Append(uploads, Ref(folder, clock, r, file.ext))
            /\ upPc' = "uploading"
            /\ UNCHANGED settled
    /\ UNCHANGED <<storeVars, analyticsVars, staffVars, peerVars, regVars,
                   formVars, file, folder,
                   transferred, progress, stored>>

\* uploadImage(file, folder, onProgress) up to the return of its promise: the
\* two validations, the reference, uploadBytesResumable, uploadTask.on
uploadImage ==
    /\ upPc = "called"
    /\ IF ~StartsWith(file.type, "image/")
       THEN /\ settled' = Append(settled, Rejected("File must be an image"))
            /\ upPc' = "rejected"
            /\ UNCHANGED uploads
       ELSE IF file.size > maxSize
       THEN /\ settled' = Append(settled, Rejected("Image size must be less than 5MB"))
            /\ upPc' = "rejected"
            /\ UNCHANGED uploads
       ELSE /\ \E r \in RandomStrings :
                  uploads' = Append(uploads, Ref(folder, clock, r, file.ext))
            /\ upPc' = "uploading"
            /\ UNCHANGED settled
    /\ UNCHANGED <<storeVars, analyticsVars, staffVars, peerVars, regVars,
                   formVars, file, folder,
                   transferred, progress, stored>>

\* the task's state_changed observer: onProgress(progress)
StateChanged ==
    /\ upPc = "uploading"
    /\ Len(progress) < MaxProgress
    /\ \E b \in SnapshotBytes(file.size) :
          /\ b >= transferred
          /\ transferred' = b
          /\ progress' = Append(progress, Percentage(b, file.size))
    /\ UNCHANGED <<storeVars, analyticsVars, staffVars, peerVars, regVars,
                   formVars, file, folder, upPc,
                   uploads, stored, settled>>

\* the task's error observer: reject(new Error('Failed to upload image'))
UploadError ==
    /\ upPc = "uploading"
    /\ settled' = Append(settled, Rejected("Failed to upload image"))
    /\ upPc' = "rejected"
    /\ UNCHANGED <<storeVars, analyticsVars, staffVars, peerVars, regVars,
                   formVars, file, folder,
                   uploads, transferred, progress, stored>>

\* the task's completion observer up to its await: the object is stored,
\* getDownloadURL is called
UploadComplete ==
    /\ upPc = "uploading"
    /\ stored' = stored \cup {uploads[Len(uploads)]}
    /\ transferred' = file.size
    /\ upPc' = "lookup"
    /\ UNCHANGED <<storeVars, analyticsVars, staffVars, peerVars, regVars,
                   formVars, file, folder,
                   uploads, progress, settled>>

\* await getDownloadURL resolves: resolve(downloadURL)
URLResolves ==
    /\ upPc = "lookup"
    /\ settled' = Append(settled, Resolved(DownloadURL(uploads[Len(uploads)])))
    /\ upPc' = "resolved"
    /\ UNCHANGED <<storeVars, analyticsVars, staffVars, peerVars, regVars,
                   formVars, file, folder,
                   uploads, transferred, progress, stored>>

\* await getDownloadURL rejects: reject(new Error('Failed to get image URL'))
URLFails ==
    /\ upPc = "lookup"
    /\ settled' = Append(settled, Rejected("Failed to get image URL"))
    /\ upPc' = "rejected"
    /\ UNCHANGED <<storeVars, analyticsVars, staffVars, peerVars, regVars,
                   formVars, file, folder,
                   uploads, transferred, progress, stored>>

\* uploadImage has been called with a file and a folder
InitUpload ==
    /\ dbOrders = <<>>
    /\ dbUsers = <<>>
    /\ dbProducts = <<>>
    /\ clock = StartClock
    /\ file \in Files
    /\ folder \in Folders
    /\ upPc = "called"
    /\ uploads = <<>>
    /\ transferred = 0
    /\ progress = <<>>
    /\ stored = {}
    /\ settled = <<>>
    /\ AnalyticsUnmounted
    /\ StaffUnmounted
    /\ PeerUnmounted
    /\ RegistrationUnmounted
    /\ ProductFormUnmounted

NextUpload ==
    \/ uploadImage
    \/ StateChanged
    \/ UploadError
    \/ UploadComplete
    \/ URLResolves
    \/ URLFails

\* the upload task ends, with an error or complete
TaskEnds == UploadError \/ UploadComplete

\* the promise of getDownloadURL settles
LookupSettles == URLResolves \/ URLFails

SpecUpload ==
    /\ InitUpload /\ [][NextUpload]_vars
    /\ WF_vars(uploadImage) /\ WF_vars(TaskEnds) /\ WF_vars(LookupSettles)

----------------------------------------------------------------------------
(* Registration: handleChange, handlePhoneChange, handleRegister *)

\* s.startsWith(p), on strings as sequences of characters
HasPrefix(s, p) == Len(s) >= Len(p) /\ SubSeq(s, 1, Len(p)) = p

\* s.replace(p, r) with a string pattern: the first occurrence only
ReplaceFirst(s, p, r) ==
    LET hits == {i \in 1..(Len(s) - Len(p) + 1) : SubSeq(s, i, i + Len(p) - 1) = p}
    IN  IF hits = {} THEN s
        ELSE LET i == CHOOSE k \in hits : \A j \in hits : k <= j
             IN  SubSeq(s, 1, i - 1) \o r \o SubSeq(s, i + Len(p), Len(s))

Digits == {"0", "1", "2", "3", "4", "5", "6", "7", "8", "9"}

Digits10 == <<"9", "1", "7", "1", "2", "3", "4", "5", "6", "7">>

TakenEmail == "taken@example.com"

\* userCredential.user.uid: one uid per account
UidOf(email) == IF email = TakenEmail THEN 1 ELSE 2

\* a user document: role "user", emailVerified false
UserDoc(email) == [id |-> UidOf(email), role |-> "user", emailVerified |-> FALSE]

PasswordsDiffer == "Passwords do not match"

PasswordTooShort == "Password should be at least 6 characters long"

InvalidPhone == "Please enter a valid Philippine phone number (+63XXXXXXXXXX)"

\* mutant: the length of the password is checked before its confirmation
ValidationError_LengthFirst(fd) ==
    IF Len(fd.password) < 6 THEN PasswordTooShort
    ELSE IF fd.password # fd.confirmPassword THEN PasswordsDiffer
    ELSE IF ~HasPrefix(fd.phone, Plus63) \/ Len(fd.phone) # 13 THEN InvalidPhone
    ELSE ""

\* the three checks of handleRegister, in their order: the message of the
\* first that fails, "" when none fails
ValidationError(fd) ==
    IF fd.password # fd.confirmPassword THEN PasswordsDiffer
    ELSE IF Len(fd.password) < 6 THEN PasswordTooShort
    ELSE IF ~HasPrefix(fd.phone, Plus63) \/ Len(fd.phone) # 13 THEN InvalidPhone
    ELSE ""

\* a rejection: err.code of the auth service, err.text of emailjs, err.message
Err(c, t, m) == [code |-> c, text |-> t, message |-> m]

\* the rejections each awaited call can end with
Rejections(pc, fd) ==
    CASE pc = "createUser" ->
            {Err("auth/network-request-failed", "", "Firebase: Error")}
            \cup (IF fd.email \in authUsers
                  THEN {Err("auth/email-already-in-use", "", "Firebase: Error")}
                  ELSE {})
            \cup (IF fd.email = ""
                  THEN {Err("auth/invalid-email", "", "Firebase: Error")}
                  ELSE {})
      [] pc = "sendEmail" -> {Err("", "The service is down", "")}
      [] pc = "signOut" -> {Err("auth/network-request-failed", "", "Firebase: Error")}
      [] OTHER -> {Err("unavailable", "", "Firebase: Error"), Err("", "", "")}

\* the message the catch block sets
CatchMessage(err) ==
    IF err.code = "auth/email-already-in-use"
    THEN "This email is already registered. Please login instead."
    ELSE IF err.text # ""
    THEN "Failed to send verification email. Please contact support."
    ELSE IF err.message # "" THEN err.message ELSE "Failed to register"

\* the awaited calls of handleRegister
Awaiting ==
    {"createUser", "updateProfile", "setUserDoc", "setTokenDoc", "sendEmail", "signOut"}

\* a collection after setDoc(doc(db, collection, d.id), d): the document is
\* replaced, or created
SetDoc(coll, d) ==
    IF \E i \in 1..Len(coll) : coll[i].id = d.id
    THEN [i \in 1..Len(coll) |-> IF coll[i].id = d.id THEN d ELSE coll[i]]
    ELSE Append(coll, d)

\* handleChange: an edit of email, password or confirmPassword; the running
\* handleRegister reads the formData of its own render, so edits are taken
\* between submits
handleChange ==
    /\ rPc = "form"
    /\ LET typedEmails == {TakenEmail, "new@example.com"}
           typedPasswords == {<<"s", "e", "c", "r", "e">>,
                              <<"s", "e", "c", "r", "e", "t">>}
       IN  \/ \E v \in typedEmails : formData' = [formData EXCEPT !.email = v]
           \/ \E v \in typedPasswords : formData' = [formData EXCEPT !.password = v]
           \/ \E v \in typedPasswords :
                 formData' = [formData EXCEPT !.confirmPassword = v]
    /\ UNCHANGED <<storeVars, analyticsVars, staffVars, peerVars, uploadVars, formVars,
                   error, regLoading, rPc, authUsers, currentUser, userDocs, emails,
                   location>>

\* handlePhoneChange: a value that lost the prefix gets it back. The values
\* the input can hold after an edit (e.target.value): a full number, one digit
\* short, one digit long, letters after the prefix, the prefix deleted, the
\* prefix damaged, a character typed before the prefix, everything after the
\* prefix deleted
handlePhoneChange ==
    /\ rPc = "form"
    /\ LET typedValues ==
               {Plus63 \o Digits10,
                Plus63 \o SubSeq(Digits10, 1, 9),
                Plus63 \o Digits10 \o <<"8">>,
                Plus63 \o <<"a", "b", "c", "d", "e", "f", "g", "h", "i", "j">>,
                Digits10,
                <<"+", "6">> \o Digits10,
                <<"0">> \o Plus63 \o SubSeq(Digits10, 1, 9),
                Plus63}
       IN  \E typed \in typedValues :
              LET value == IF ~HasPrefix(typed, Plus63)
                           THEN Plus63 \o ReplaceFirst(typed, Plus63, <<>>)
                           ELSE typed
              IN  formData' = [formData EXCEPT !.phone = value]
    /\ UNCHANGED <<storeVars, analyticsVars, staffVars, peerVars, uploadVars, formVars,
                   error, regLoading, rPc, authUsers, currentUser, userDocs, emails,
                   location>>

\* handleRegister up to its first await: setError(""), the three checks, each
\* with setError and return; then setLoading(true) and the call of
\* createUserWithEmailAndPassword
handleRegister ==
    /\ rPc = "form"
    /\ ~regLoading
    /\ error' = ValidationError(formData)
    /\ IF ValidationError(formData) # ""
       THEN UNCHANGED <<regLoading, rPc>>
       ELSE regLoading' = TRUE /\ rPc' = "createUser"
    /\ UNCHANGED <<storeVars, analyticsVars, staffVars, peerVars, uploadVars, formVars,
                   formData, authUsers, currentUser, userDocs, emails, location>>

\* createUserWithEmailAndPassword resolves: the account exists and its user is
\* signed in; updateProfile is called
CreateUserOk ==
    /\ rPc = "createUser"
    /\ formData.email # ""
    /\ formData.email \notin authUsers
    /\ authUsers' = authUsers \cup {formData.email}
    /\ currentUser' = formData.email
    /\ rPc' = "updateProfile"
    /\ UNCHANGED <<storeVars, analyticsVars, staffVars, peerVars, uploadVars, formVars,
                   formData, error, regLoading, userDocs, emails, location>>

\* updateProfile resolves; setDoc on users is called
UpdateProfileOk ==
    /\ rPc = "updateProfile"
    /\ rPc' = "setUserDoc"
    /\ UNCHANGED <<storeVars, analyticsVars, staffVars, peerVars, uploadVars, formVars,
                   formData, error, regLoading, authUsers, currentUser, userDocs,
                   emails, location>>

\* setDoc(doc(db, "users", user.uid), ...) resolves; setDoc on verificationTokens
\* is called
SetUserDocOk ==
    /\ rPc = "setUserDoc"
    /\ dbUsers' = SetDoc(dbUsers, UserDoc(formData.email))
    /\ userDocs' = userDocs \cup {[collection |-> "users", userId |-> UidOf(formData.email)]}
    /\ rPc' = "setTokenDoc"
    /\ UNCHANGED <<dbOrders, dbProducts, clock, analyticsVars, staffVars, peerVars,
                   uploadVars, formVars, formData, error, regLoading, authUsers,
                   currentUser, emails, location>>

\* setDoc(doc(db, "verificationTokens", token), ...) resolves; emailjs.send is
\* called
SetTokenDocOk ==
    /\ rPc = "setTokenDoc"
    /\ userDocs' = userDocs \cup {[collection |-> "verificationTokens",
                                   userId |-> UidOf(formData.email)]}
    /\ rPc' = "sendEmail"
    /\ UNCHANGED <<storeVars, analyticsVars, staffVars, peerVars, uploadVars, formVars,
                   formData, error, regLoading, authUsers, currentUser, emails,
                   location>>

\* emailjs.send resolves; signOut is called
SendEmailOk ==
    /\ rPc = "sendEmail"
    /\ emails' = emails \cup {formData.email}
    /\ rPc' = "signOut"
    /\ UNCHANGED <<storeVars, analyticsVars, staffVars, peerVars, uploadVars, formVars,
                   formData, error, regLoading, authUsers, currentUser, userDocs,
                   location>>

\* signOut resolves: toast.success, setError(""), navigate("/login"); finally
\* setLoading(false)
SignOutOk ==
    /\ rPc = "signOut"
    /\ currentUser' = NoUser
    /\ error' = ""
    /\ location' = "/login"
    /\ regLoading' = FALSE
    /\ rPc' = "done"
    /\ UNCHANGED <<storeVars, analyticsVars, staffVars, peerVars, uploadVars, formVars,
                   formData, authUsers, userDocs, emails>>

\* an awaited call rejects: catch sets the message; finally setLoading(false);
\* the page stays
RegisterFails ==
    /\ rPc \in Awaiting
    /\ \E err \in Rejections(rPc, formData) : error' = CatchMessage(err)
    /\ regLoading' = FALSE
    /\ rPc' = "form"
    /\ UNCHANGED <<storeVars, analyticsVars, staffVars, peerVars, uploadVars, formVars,
                   formData, authUsers, currentUser, userDocs, emails, location>>

\* the Registration page is mounted; one email has an account already
InitRegister ==
    /\ dbOrders = <<>>
    /\ dbUsers = <<UserDoc(TakenEmail)>>
    /\ dbProducts = <<>>
    /\ clock = StartClock
    /\ formData = DefaultFormData
    /\ error = ""
    /\ regLoading = FALSE
    /\ rPc = "form"
    /\ authUsers = {TakenEmail}
    /\ currentUser = NoUser
    /\ userDocs = {}
    /\ emails = {}
    /\ location = "Registration"
    /\ AnalyticsUnmounted
    /\ StaffUnmounted
    /\ PeerUnmounted
    /\ UploadIdle
    /\ ProductFormUnmounted

NextRegister ==
    \/ handleChange
    \/ handlePhoneChange
    \/ handleRegister
    \/ CreateUserOk
    \/ UpdateProfileOk
    \/ SetUserDocOk
    \/ SetTokenDocOk
    \/ SendEmailOk
    \/ SignOutOk
    \/ RegisterFails

SpecRegister == InitRegister /\ [][NextRegister]_vars

----------------------------------------------------------------------------
(* ProductForm: the field handlers, validate, handleSubmit *)

\* images the model lets the form hold
MaxImages == 1

\* setDoc requests of one form the model lets happen
MaxSubmits == 1

\* s.trim(), on strings as sequences of characters
Trim(s) ==
    LET inked == {i \in 1..Len(s) : s[i] # " "}
    IN  IF inked = {} THEN <<>>
        ELSE SubSeq(s, CHOOSE i \in inked : \A j \in inked : i <= j,
                       CHOOSE i \in inked : \A j \in inked : i >= j)

\* e.target.value.split(',').map((tag) => tag.trim()).filter(Boolean), on the
\* typed text as the sequence of its comma-separated pieces
TagsOf(pieces) ==
    SelectSeq([i \in 1..Len(pieces) |-> Trim(pieces[i])], LAMBDA t : t # <<>>)

Text8 == <<"f", "r", "e", "s", "h", "e", "g", "g">>

\* what setDoc stores under a document id
ProductDoc(docId, data) ==
    [id |-> docId, name |-> data.name, description |-> data.description,
     price |-> data.price, category |-> data.category, tags |-> data.tags,
     images |-> data.images, createdAt |-> data.createdAt,
     updatedAt |-> data.updatedAt]

\* the stored product an edit can open: it was stored with price 0 and no
\* image
StoredProducts ==
    <<ProductDoc(1, [name |-> <<"a", "b">>, description |-> Text8 \o <<"s", "!">>,
                     price |-> 0, category |-> "Bakery", tags |-> <<>>,
                     images |-> <<>>,
                     createdAt |-> StartClock, updatedAt |-> StartClock])>>

\* doc(productsRef) generates an identifier that no document has: the model
\* takes the next of a series apart from the stored identifiers
GeneratedId == 101 + Len(productWrites)

FieldError(f, m) == [field |-> f, message |-> m]

\* mutant: name and description are measured without trimming
validate_Untrimmed(p) ==
    (IF Len(p.name) < 2
     THEN {FieldError("name", "Name is required (min 2 characters)")} ELSE {})
    \cup (IF Len(p.description) < 10
          THEN {FieldError("description", "Description is required (min 10 characters)")}
          ELSE {})
    \cup (IF p.price <= 0
          THEN {FieldError("price", "Price must be greater than 0")} ELSE {})
    \cup (IF p.category = ""
          THEN {FieldError("category", "Category is required")} ELSE {})
    \cup (IF Len(p.images) = 0
          THEN {FieldError("images", "At least one image is required")} ELSE {})
    \cup (IF \E i \in 1..Len(p.tags) : Len(p.tags[i]) < 2
          THEN {FieldError("tags", "All tags must be at least 2 characters")} ELSE {})

\* validate: newErrors, one entry per field whose check fails
validate(p) ==
    (IF p.name = <<>> \/ Len(Trim(p.name)) < 2
     THEN {FieldError("name", "Name is required (min 2 characters)")} ELSE {})
    \cup (IF p.description = <<>> \/ Len(Trim(p.description)) < 10
          THEN {FieldError("description", "Description is required (min 10 characters)")}
          ELSE {})
    \cup (IF p.price <= 0
          THEN {FieldError("price", "Price must be greater than 0")} ELSE {})
    \cup (IF p.category = ""
          THEN {FieldError("category", "Category is required")} ELSE {})
    \cup (IF Len(p.images) = 0
          THEN {FieldError("images", "At least one image is required")} ELSE {})
    \cup (IF \E i \in 1..Len(p.tags) : Len(p.tags[i]) < 2
          THEN {FieldError("tags", "All tags must be at least 2 characters")} ELSE {})

\* productData: the product with price as a number and the two dates
ProductData(p, now) ==
    [name |-> p.name, description |-> p.description, price |-> p.price,
     category |-> p.category, tags |-> p.tags, images |-> p.images,
     createdAt |-> now, updatedAt |-> now]

formFrame ==
    UNCHANGED <<storeVars, analyticsVars, staffVars, peerVars, uploadVars, regVars,
                routeId, errors, saving, fPc, productWrites, formToasts, formLocation>>

\* fetchProduct resolves: setProduct({ id, ...docSnap.data() }) when the
\* document exists
FetchProductOk ==
    /\ fPc = "fetching"
    /\ product' = IF \E i \in 1..Len(dbProducts) : dbProducts[i].id = routeId
                  THEN LET d == dbProducts[CHOOSE i \in 1..Len(dbProducts) :
                                              dbProducts[i].id = routeId]
                       IN  [name |-> d.name, description |-> d.description,
                            price |-> d.price, category |-> d.category,
                            tags |-> d.tags, images |-> d.images]
                  ELSE product
    /\ fPc' = "form"
    /\ UNCHANGED <<storeVars, analyticsVars, staffVars, peerVars, uploadVars, regVars,
                   routeId, imageUrl, errors, saving, productWrites, formToasts,
                   formLocation>>

\* fetchProduct: getDoc rejects; toast.error, navigate('/admin/products')
FetchProductFails ==
    /\ fPc = "fetching"
    /\ formToasts' = Append(formToasts, "Failed to fetch product")
    /\ formLocation' = "/admin/products"
    /\ fPc' = "left"
    /\ UNCHANGED <<storeVars, analyticsVars, staffVars, peerVars, uploadVars, regVars,
                   routeId, product, imageUrl, errors, saving, productWrites>>

\* the onChange handlers of name, description, price, category; the form is
\* edited once the product to edit has arrived and between submits
SetName ==
    /\ fPc = "form"
    /\ \E v \in {<<>>, <<" ", "a", " ">>, <<"a", "b">>} : product' = [product EXCEPT !.name = v]
    /\ UNCHANGED imageUrl
    /\ formFrame

SetDescription ==
    /\ fPc = "form"
    /\ \E v \in {Text8 \o <<"s", "!">>, <<" ">> \o Text8 \o <<" ">>} :
          product' = [product EXCEPT !.description = v]
    /\ UNCHANGED imageUrl
    /\ formFrame

\* price: Number(e.target.value)
SetPrice ==
    /\ fPc = "form"
    /\ \E v \in {0, 50} : product' = [product EXCEPT !.price = v]
    /\ UNCHANGED imageUrl
    /\ formFrame

SetCategory ==
    /\ fPc = "form"
    /\ \E v \in {"", "Bakery"} : product' = [product EXCEPT !.category = v]
    /\ UNCHANGED imageUrl
    /\ formFrame

\* tags: the typed text split at commas, trimmed, without the empty pieces
SetTags ==
    /\ fPc = "form"
    /\ \E v \in {<<>>, << <<" ">>, <<"a">>, <<" ", "a", "b">> >>} :
          product' = [product EXCEPT !.tags = TagsOf(v)]
    /\ UNCHANGED imageUrl
    /\ formFrame

SetImageUrl ==
    /\ fPc = "form"
    /\ \E v \in {<<>>, <<" ", "u", "r", "l">>} : imageUrl' = v
    /\ UNCHANGED product
    /\ formFrame

\* handleAddImage: a non-blank imageUrl is appended, trimmed, and cleared
handleAddImage ==
    /\ fPc = "form"
    /\ Len(product.images) < MaxImages
    /\ IF Trim(imageUrl) # <<>>
       THEN /\ product' = [product EXCEPT !.images = Append(@, Trim(imageUrl))]
            /\ imageUrl' = <<>>
       ELSE UNCHANGED <<product, imageUrl>>
    /\ formFrame

\* handleRemoveImage(index): images.filter((_, i) => i !== index)
handleRemoveImage ==
    /\ fPc = "form"
    /\ \E index \in 1..Len(product.images) :
          product' = [product EXCEPT !.images =
                         SubSeq(@, 1, index - 1) \o SubSeq(@, index + 1, Len(@))]
    /\ UNCHANGED imageUrl
    /\ formFrame

\* handleSubmit up to its await: validate (setErrors) and return when it
\* fails; else setLoading(true) and setDoc on the edited document or on a
\* document with a generated identifier
handleSubmit ==
    /\ fPc = "form"
    /\ ~saving
    /\ Len(productWrites) < MaxSubmits
    /\ errors' = validate(product)
    /\ IF validate(product) # {}
       THEN UNCHANGED <<saving, fPc, productWrites>>
       ELSE /\ saving' = TRUE
            /\ fPc' = "writing"
            /\ productWrites' =
                  Append(productWrites,
                         [docId |-> IF routeId # NoProductId THEN routeId
                                    ELSE GeneratedId,
                          data |-> ProductData(product, clock)])
    /\ UNCHANGED <<storeVars, analyticsVars, staffVars, peerVars, uploadVars, regVars,
                   routeId, product, imageUrl, formToasts, formLocation>>

\* await setDoc resolves: toast.success, navigate('/admin/products'); finally
\* setLoading(false)
WriteProductOk ==
    /\ fPc = "writing"
    /\ LET w == productWrites[Len(productWrites)]
       IN  dbProducts' = SetDoc(dbProducts, ProductDoc(w.docId, w.data))
    /\ formToasts' = Append(formToasts, IF routeId # NoProductId
                                        THEN "Product updated successfully"
                                        ELSE "Product created successfully")
    /\ formLocation' = "/admin/products"
    /\ saving' = FALSE
    /\ fPc' = "done"
    /\ UNCHANGED <<dbOrders, dbUsers, clock, analyticsVars, staffVars, peerVars,
                   uploadVars, regVars, routeId, product, imageUrl, errors,
                   productWrites>>

\* await setDoc rejects: catch, toast.error; finally setLoading(false)
WriteProductFails ==
    /\ fPc = "writing"
    /\ formToasts' = Append(formToasts, IF routeId # NoProductId
                                        THEN "Failed to update product"
                                        ELSE "Failed to create product")
    /\ saving' = FALSE
    /\ fPc' = "form"
    /\ UNCHANGED <<storeVars, analyticsVars, staffVars, peerVars, uploadVars, regVars,
                   routeId, product, imageUrl, errors, productWrites, formLocation>>

\* ProductForm is mounted, to create a product or to edit a stored one: the
\* mount effect has called fetchProduct when there is an id
InitProductForm ==
    /\ dbOrders = <<>>
    /\ dbUsers = <<>>
    /\ dbProducts = StoredProducts
    /\ clock = StartClock
    /\ routeId \in {NoProductId} \cup {StoredProducts[i].id : i \in 1..Len(StoredProducts)}
    /\ product = DefaultProduct
    /\ imageUrl = <<>>
    /\ errors = {}
    /\ saving = FALSE
    /\ fPc = IF routeId # NoProductId THEN "fetching" ELSE "form"
    /\ productWrites = <<>>
    /\ formToasts = <<>>
    /\ formLocation = "ProductForm"
    /\ AnalyticsUnmounted
    /\ StaffUnmounted
    /\ PeerUnmounted
    /\ UploadIdle
    /\ RegistrationUnmounted

NextProductForm ==
    \/ FetchProductOk
    \/ FetchProductFails
    \/ SetName
    \/ SetDescription
    \/ SetPrice
    \/ SetCategory
    \/ SetTags
    \/ SetImageUrl
    \/ handleAddImage
    \/ handleRemoveImage
    \/ handleSubmit
    \/ WriteProductOk
    \/ WriteProductFails

SpecProductForm == InitProductForm /\ [][NextProductForm]_vars

----------------------------------------------------------------------------
(* Claims about the StaffDashboard view *)

\* the step in which the call c ends with its write accepted
Succeeds(c) ==
    /\ c \in calls /\ c \notin calls'
    /\ toasts'["Order status updated to"] = toasts["Order status updated to"] + 1

\* the step in which the call c ends with its write rejected
Fails(c) ==
    /\ c \in calls /\ c \notin calls'
    /\ toasts'["Order status updated to"] = toasts["Order status updated to"]

\* C1: a call updateOrderStatus(id, s) whose write succeeds has sent exactly one
\* write, to the document orders/id, with exactly the fields status = s and an
\* update-timestamp of the time of the call; the store holds these two fields
\* afterwards; the in-memory record of id then has status s and an update time
\* newer than before, and every other in-memory order is as it was when the
\* call was made.
C1_UpdateWritesAndMirrors ==
    [][\A c \in calls : Succeeds(c) =>
        LET mine == {i \in 1..Len(writes') : writes'[i].call = c.call}
            w == writes'[c.call]
            doc == OrderById(dbOrders', c.orderId)
            mem == OrderById(orders', c.orderId)
        IN  /\ Cardinality(mine) = 1
            /\ w.orderId = c.orderId
            /\ DOMAIN w.data = {"status", "updatedAt"}
            /\ w.data.status = c.newStatus
            /\ w.data.updatedAt.kind = "timestamp"
            /\ TimestampToDate(w.data.updatedAt) > OrderById(c.closure, c.orderId).updatedAt
            /\ doc.status = c.newStatus
            /\ doc.updatedAt = w.data.updatedAt
            /\ \A i \in 1..Len(dbOrders) :
                  dbOrders[i].id # c.orderId => dbOrders'[i] = dbOrders[i]
            /\ mem.status = c.newStatus
            /\ mem.updatedAt > OrderById(orders, c.orderId).updatedAt
            /\ mem.updatedAt > OrderById(c.closure, c.orderId).updatedAt
            /\ mem.createdAt = OrderById(c.closure, c.orderId).createdAt
            /\ Len(orders') = Len(c.closure)
            /\ \A i \in 1..Len(orders') :
                  /\ orders'[i].id = c.closure[i].id
                  /\ orders'[i].id # c.orderId => orders'[i] = c.closure[i]
    ]_vars

\* a write has succeeded on a list of two orders, and changed the status shown
C1_Witness ==
    /\ toasts["Order status updated to"] >= 1
    /\ Len(orders) = 2
    /\ \E i \in 1..Len(orders) :
          /\ orders[i].status = "delivered"
          /\ dbOrders[orders[i].id].status = "delivered"

\* C2: when the write of updateOrderStatus(id, s) fails, the call ends normally,
\* 'Failed to update order status' is reported once, no success is reported,
\* and the in-memory order list and the store are exactly as before.
C2_FailedWriteLeavesState ==
    [][\A c \in calls : Fails(c) =>
        /\ toasts'["Failed to update order status"]
              = toasts["Failed to update order status"] + 1
        /\ \A m \in Messages \ {"Failed to update order status"} :
              toasts'[m] = toasts[m]
        /\ orders' = orders
        /\ dbOrders' = dbOrders
        /\ sPc' = sPc /\ loading' = loading
    ]_vars

\* a write to change a shipped order has failed; the order is still shown shipped
C2_Witness ==
    /\ toasts["Failed to update order status"] >= 1
    /\ toasts["Order status updated to"] = 0
    /\ calls = {}
    /\ \E i \in 1..Len(writes) :
          /\ writes[i].data.status = "delivered"
          /\ OrderById(orders, writes[i].orderId).status = "shipped"

----------------------------------------------------------------------------
(* Claims about the Analytics view *)

\* the orders that are not cancelled
WithoutCancelled(os) == SelectSeq(os, LAMBDA o : o.status # "cancelled")

\* o was created in month m (or m is "all") of year y (or y is "all")
InPeriod(o, m, y) ==
    LET t == toDate(o.createdAt) IN
    /\ t # NoTime
    /\ m = AllSel \/ getMonth(t) = m
    /\ y = AllSel \/ getFullYear(t) = y

\* the orders the selectors m, y include
Selected(os, m, y) ==
    IF m = AllSel /\ y = AllSel THEN os
    ELSE SelectSeq(os, LAMBDA o : InPeriod(o, m, y))

RECURSIVE TotalOf(_)
TotalOf(os) ==
    IF Len(os) = 0 THEN 0
    ELSE TotalOf(SubSeq(os, 1, Len(os) - 1)) + os[Len(os)].total

RECURSIVE UnitsIn(_, _)
UnitsIn(items, pid) ==
    IF items = <<>> THEN 0
    ELSE (IF items[1].productId = pid THEN items[1].quantity ELSE 0)
         + UnitsIn(Tail(items), pid)

\* the units of product pid in the line items of the non-cancelled orders
RECURSIVE UnitsSold(_, _)
UnitsSold(os, pid) ==
    IF os = <<>> THEN 0
    ELSE (IF os[1].status = "cancelled" THEN 0 ELSE UnitsIn(os[1].items, pid))
         + UnitsSold(Tail(os), pid)

Ids(os) == {os[i].id : i \in 1..Len(os)}

\* C3: whatever its creation date, a cancelled order adds nothing to total
\* revenue, to total orders or to a product's totalSold: the totals shown are
\* those of the non-cancelled orders of some selector setting (or the
\* defaults), as computed by the load and as recomputed by the effect.
C3_CancelledExcluded ==
    LET kept == WithoutCancelled(allOrders) IN
    /\ \/ stats.totalRevenue = 0 /\ stats.totalOrders = 0
       \/ \E m \in monthOptions \cup {AllSel}, y \in yearOptions \cup {AllSel} :
             /\ stats.totalRevenue = TotalOf(Selected(kept, m, y))
             /\ stats.totalOrders = Len(Selected(kept, m, y))
    /\ \A i \in 1..Len(stats.topProducts) :
          stats.topProducts[i].totalSold
              = UnitsSold(allOrders, stats.topProducts[i].id)

\* the load is done over a cancelled order with a date, a total and a line item
\* of a listed product, beside an order that counts
C3_Witness ==
    /\ aPc = "done" /\ ~effectPending
    /\ stats.totalOrders > 0
    /\ \E i \in 1..Len(allOrders) :
          /\ allOrders[i].status = "cancelled"
          /\ toDate(allOrders[i].createdAt) # NoTime
          /\ allOrders[i].total > 0
          /\ \E j \in 1..Len(stats.topProducts), k \in 1..Len(allOrders[i].items) :
                stats.topProducts[j].id = allOrders[i].items[k].productId

\* C4: once the load has finished and no effect is pending, total revenue is
\* the sum of total over the non-cancelled orders of the selected month and
\* year, and total orders is their number.
C4_TotalsFollowSelectors ==
    (aPc = "done" /\ ~effectPending) =>
        LET inc == Selected(WithoutCancelled(allOrders), filterMonth, filterYear) IN
        /\ stats.totalRevenue = TotalOf(inc)
        /\ stats.totalOrders = Len(inc)

\* set holds, once each, exactly the fetched orders that the specific
\* selectors among m, y admit
C5_Exactly(set, m, y) ==
    /\ Len(set) = Cardinality(Ids(set))
    /\ \A i \in 1..Len(set) : \E j \in 1..Len(allOrders) : set[i] = allOrders[j]
    /\ \A j \in 1..Len(allOrders) :
        LET o == allOrders[j]
            t == toDate(o.createdAt)
            in == o.id \in Ids(set)
        IN  /\ t = NoTime => ~in
            /\ (t # NoTime /\ m # AllSel /\ y # AllSel) =>
                  (in <=> (getMonth(t) = m /\ getFullYear(t) = y))
            /\ (t # NoTime /\ m # AllSel /\ y = AllSel) => (in <=> getMonth(t) = m)
            /\ (t # NoTime /\ m = AllSel /\ y # AllSel) => (in <=> getFullYear(t) = y)

\* C5: with a specific month M and year Y the date-filtered set holds exactly
\* the orders whose normalized creation time has month M and year Y, and no
\* order without a normalized time; with one specific selector, exactly the
\* orders that selector admits. In the effect and in the export.
C5_DateFilterExact ==
    (filterMonth # AllSel \/ filterYear # AllSel) =>
        /\ (~effectPending /\ Len(allOrders) > 0) =>
              C5_Exactly(filtered, filterMonth, filterYear)
        /\ workbook.built => C5_Exactly(exportFiltered, filterMonth, filterYear)

\* an export under a specific month and year that keeps one order and leaves out
\* an order of another period and an order without a normalized time
C5_Witness ==
    /\ workbook.built
    /\ filterMonth # AllSel /\ filterYear # AllSel
    /\ Len(exportFiltered) = 1 /\ filtered = exportFiltered
    /\ \E j \in 1..Len(allOrders) : toDate(allOrders[j].createdAt) = NoTime
    /\ \E j \in 1..Len(allOrders) :
          /\ toDate(allOrders[j].createdAt) # NoTime
          /\ getMonth(toDate(allOrders[j].createdAt)) = filterMonth
          /\ getFullYear(toDate(allOrders[j].createdAt)) # filterYear

\* C6: with month "all" and year "all" the date-filtered set is the whole
\* fetched order set, orders without a normalized time included, in the
\* effect and in the export.
C6_AllAllKeepsEverything ==
    (filterMonth = AllSel /\ filterYear = AllSel) =>
        /\ (~effectPending /\ Len(allOrders) > 0) => filtered = allOrders
        /\ workbook.built => exportFiltered = allOrders

\* an export under all/all over orders of which one has no creation time and
\* one an unparseable one
C6_Witness ==
    /\ workbook.built /\ ~effectPending
    /\ filterMonth = AllSel /\ filterYear = AllSel
    /\ \E i, j \in 1..Len(allOrders) :
          /\ allOrders[i].createdAt.kind = "absent"
          /\ allOrders[j].createdAt.kind = "string"
          /\ toDate(allOrders[j].createdAt) = NoTime
    /\ Len(filtered) = Len(allOrders)

\* the products that have a line item in a non-cancelled order
Selling == {i \in 1..Len(dbProducts) : UnitsSold(allOrders, dbProducts[i].id) > 0}

\* C7: after a successful load the top-products list has at most 5 entries, in
\* descending order of totalSold; a product no line item of a non-cancelled
\* order refers to has totalSold 0 and is listed only if fewer than 5 products
\* have sales.
C7_TopProducts ==
    aPc = "done" =>
        LET top == stats.topProducts IN
        /\ Len(top) <= 5
        /\ Len(top) = Cardinality({top[i].id : i \in 1..Len(top)})
        /\ \A i \in 1..Len(top) : \E j \in 1..Len(dbProducts) : top[i].id = dbProducts[j].id
        /\ \A i \in 1..(Len(top) - 1) : top[i].totalSold >= top[i + 1].totalSold
        /\ \A i \in 1..Len(top) :
              UnitsSold(allOrders, top[i].id) = 0 =>
                  /\ top[i].totalSold = 0
                  /\ Cardinality(Selling) < 5

\* five products sell, a sixth one sold only in a cancelled order is left out
C7_Witness ==
    /\ aPc = "done"
    /\ Len(stats.topProducts) = 5
    /\ Cardinality(Selling) = 5
    /\ \E j \in 1..Len(dbProducts) :
          /\ j \notin Selling
          /\ \A i \in 1..5 : stats.topProducts[i].id # dbProducts[j].id
          /\ \E k \in 1..Len(allOrders) :
                /\ allOrders[k].status = "cancelled"
                /\ UnitsIn(allOrders[k].items, dbProducts[j].id) > 0

\* the time recent orders are ordered by: the normalized creation time, an
\* order without one counting as created at the epoch
TimeOrEpoch(o) ==
    IF toDate(o.createdAt) = NoTime THEN 0 ELSE toDate(o.createdAt)

\* C8: after a successful load, recent orders holds 5 of the fetched orders (all
\* if there are fewer), whatever their status and whatever the selectors, each
\* created no earlier than the next, and no order left out was created later
\* than a listed one.
C8_RecentOrders ==
    aPc = "done" =>
        LET rec == stats.recentOrders IN
        /\ Len(rec) = (IF Len(allOrders) < 5 THEN Len(allOrders) ELSE 5)
        /\ Len(rec) = Cardinality(Ids(rec))
        /\ \A i \in 1..Len(rec) : \E j \in 1..Len(allOrders) : rec[i] = allOrders[j]
        /\ \A i \in 1..(Len(rec) - 1) : TimeOrEpoch(rec[i]) >= TimeOrEpoch(rec[i + 1])
        /\ \A j \in 1..Len(allOrders) :
              allOrders[j].id \notin Ids(rec) =>
                  \A i \in 1..Len(rec) : TimeOrEpoch(allOrders[j]) <= TimeOrEpoch(rec[i])

\* more than 5 orders fetched; the list holds the cancelled order, leaves out an
\* earlier order, is not in store order, and a month is selected
C8_Witness ==
    /\ aPc = "done" /\ ~effectPending
    /\ Len(allOrders) > 5
    /\ filterMonth # AllSel
    /\ \E i \in 1..Len(stats.recentOrders) : stats.recentOrders[i].status = "cancelled"
    /\ stats.recentOrders[1].id > stats.recentOrders[2].id
    /\ \E j \in 1..Len(allOrders) :
          /\ allOrders[j].id \notin Ids(stats.recentOrders)
          /\ TimeOrEpoch(allOrders[j]) < TimeOrEpoch(stats.recentOrders[5])

\* C9: after a successful load by an authenticated caller, total customers is
\* the number of user records with role "user" other than the caller's own.
C9_CustomersExcludeCaller ==
    (aPc = "done" /\ currentUserId # NoUid) =>
        stats.totalCustomers
            = Cardinality({i \in 1..Len(dbUsers) :
                              /\ dbUsers[i].role = "user"
                              /\ dbUsers[i].id # currentUserId})

\* the caller has a record with role "user"; another customer, a staff member
\* and an admin are on record too
C9_Witness ==
    /\ aPc = "done"
    /\ currentUserId # NoUid
    /\ \E i \in 1..Len(dbUsers) :
          dbUsers[i].id = currentUserId /\ dbUsers[i].role = "user"
    /\ \E i \in 1..Len(dbUsers) : dbUsers[i].role = "staff"
    /\ stats.totalCustomers = 1

\* C10: in the exported summary the average order value is the zero-currency
\* literal when the summary's total orders is zero (no division takes place),
\* and otherwise total revenue divided by total orders, to the nearest
\* thousandth.
C10_AverageGuarded ==
    workbook.built =>
        LET sm == workbook.summary
            err == sm.averageOrderValue * sm.totalOrders - 1000 * sm.totalRevenue
        IN  /\ sm.totalOrders = 0 => sm.averageOrderValue = ZeroLiteral
            /\ sm.totalOrders > 0 =>
                  /\ 2 * err <= sm.totalOrders
                  /\ 2 * err > -sm.totalOrders

\* an export after a load in which every fetched order is cancelled
C10_Witness ==
    /\ workbook.built
    /\ aPc = "done"
    /\ Len(allOrders) > 0
    /\ workbook.summary.totalOrders = 0
    /\ workbook.summary.averageOrderValue = ZeroLiteral

\* C11: once a read of the load has failed, the stats are those of before the
\* load: on this first load the defaults (zero totals, empty lists).
C11_FailedLoadKeepsStats ==
    aPc = "failed" => stats = DefaultStats

\* the fetched order o matches the selectors m, y
MatchesPeriod(o, m, y) == (m = AllSel /\ y = AllSel) \/ InPeriod(o, m, y)

\* C16: the Orders sheet of an export has exactly one row per fetched order
\* that is not cancelled and matches the month and year selectors of the
\* export, and no other row: none for a cancelled order, none for an order
\* outside the selected period.
C16_OrdersSheetRows ==
    workbook.built =>
        LET rows == workbook.ordersData
            due == {j \in 1..Len(allOrders) :
                       /\ allOrders[j].status # "cancelled"
                       /\ MatchesPeriod(allOrders[j], filterMonth, filterYear)}
        IN  /\ Len(rows) = Cardinality(due)
            /\ \A j \in due :
                  Cardinality({i \in 1..Len(rows) : rows[i].id = allOrders[j].id}) = 1
            /\ \A i \in 1..Len(rows) : \E j \in due : rows[i].id = allOrders[j].id

\* an export under a specific month with a row, over fetched orders of which
\* one is cancelled within the month, one lies in another month and one has no
\* creation time
C16_Witness ==
    /\ workbook.built
    /\ filterMonth # AllSel
    /\ Len(workbook.ordersData) > 0
    /\ \E j \in 1..Len(allOrders) :
          /\ allOrders[j].status = "cancelled"
          /\ InPeriod(allOrders[j], filterMonth, filterYear)
    /\ \E j \in 1..Len(allOrders) :
          /\ allOrders[j].status # "cancelled"
          /\ toDate(allOrders[j].createdAt) # NoTime
          /\ ~InPeriod(allOrders[j], filterMonth, filterYear)
    /\ \E j \in 1..Len(allOrders) :
          /\ allOrders[j].status # "cancelled"
          /\ toDate(allOrders[j].createdAt) = NoTime

\* the fetched orders an export under the selectors m, y is about
ExportDue(m, y) ==
    SelectSeq(allOrders, LAMBDA o : o.status # "cancelled" /\ MatchesPeriod(o, m, y))

RECURSIVE RevenueIn(_, _)
RevenueIn(items, pid) ==
    IF items = <<>> THEN 0
    ELSE (IF items[1].productId = pid THEN items[1].price * items[1].quantity ELSE 0)
         + RevenueIn(Tail(items), pid)

RECURSIVE RevenueSold(_, _)
RevenueSold(os, pid) ==
    IF os = <<>> THEN 0
    ELSE RevenueIn(os[1].items, pid) + RevenueSold(Tail(os), pid)

\* C17: the Product Sales sheet of an export has exactly one row per product
\* identifier that a line item of a non-cancelled order of the selected period
\* refers to; the row's units sold is the sum of the quantities of those line
\* items, its revenue the sum of their price times quantity; the rows are in
\* descending order of units sold.
C17_ProductSalesRows ==
    workbook.built =>
        LET rows == workbook.productSalesData
            due == ExportDue(filterMonth, filterYear)
            sold == UNION {{due[j].items[k].productId : k \in 1..Len(due[j].items)}
                           : j \in 1..Len(due)}
        IN  /\ Len(rows) = Cardinality(sold)
            /\ {rows[i].productId : i \in 1..Len(rows)} = sold
            /\ \A i \in 1..Len(rows) :
                  /\ rows[i].quantity = UnitsSold(due, rows[i].productId)
                  /\ rows[i].revenue = RevenueSold(due, rows[i].productId)
            /\ \A i, k \in 1..Len(rows) :
                  i < k => rows[i].quantity >= rows[k].quantity

\* an export of several rows over a cancelled order with a line item and a
\* product that two exported orders refer to, where the order of the rows is
\* not the order in which the products are first met
C17_Witness ==
    /\ workbook.built
    /\ \E j \in 1..Len(allOrders) :
          allOrders[j].status = "cancelled" /\ Len(allOrders[j].items) > 0
    /\ LET rows == workbook.productSalesData
           due == ExportDue(filterMonth, filterYear)
       IN  /\ \E i, k \in 1..Len(rows) :
                 /\ rows[i].quantity > rows[k].quantity
                 /\ rows[i].productId > rows[k].productId
           /\ \E i \in 1..Len(rows) :
                 \E a, b \in 1..Len(due) :
                    /\ a # b
                    /\ UnitsIn(due[a].items, rows[i].productId) > 0
                    /\ UnitsIn(due[b].items, rows[i].productId) > 0

----------------------------------------------------------------------------
(* Claims about the StaffDashboard view: its list, its failures, its loading
   indicator *)

\* C12: the list the staff view displays holds, once each, exactly the fetched
\* orders whose status equals the selected value, or every fetched order when
\* "all" is selected, and is in descending order of creation time.
C12_DisplayedList ==
    LET shown == StaffFilteredOrders
        due == {i \in 1..Len(orders) :
                   selectedStatus = "all" \/ orders[i].status = selectedStatus}
    IN  /\ Len(shown) = Cardinality(due)
        /\ \A i \in due :
              Cardinality({k \in 1..Len(shown) : shown[k] = orders[i]}) = 1
        /\ \A k \in 1..Len(shown) : \E i \in due : shown[k] = orders[i]
        /\ \A k, l \in 1..Len(shown) :
              k < l => shown[k].createdAt >= shown[l].createdAt

\* a status is selected that two fetched orders of different creation times
\* have and a third fetched order has not
C12_Witness ==
    /\ sPc = "idle" /\ ~loading
    /\ selectedStatus \in Statuses
    /\ Len(StaffFilteredOrders) = 2
    /\ StaffFilteredOrders[1].createdAt > StaffFilteredOrders[2].createdAt
    /\ \E i \in 1..Len(orders) : orders[i].status # selectedStatus

\* the point in time a stored timestamp denotes, in milliseconds
Millis(ts) == ts.seconds * 1000 + ts.nanoseconds \div 1000000

\* the time the in-memory order holds for the stored field raw when the read
\* resolved at time now
Normalized(raw, now) == IF raw.kind = "absent" THEN now ELSE Millis(raw)

\* C13: after a successful fetchOrders (and before any status update) the
\* in-memory list has exactly one entry per document of the orders
\* collection, with the document's identifier and data, its creation and
\* update times being the stored timestamps converted, or the time of the
\* fetch where the field is absent; the list is in descending order of
\* creation time.
C13_FetchedList ==
    (sPc = "idle" /\ writes = <<>> /\ toasts["Failed to load orders"] = 0) =>
        /\ Len(orders) = Len(dbOrders)
        /\ \A j \in 1..Len(dbOrders) :
              LET mine == {i \in 1..Len(orders) : orders[i].id = dbOrders[j].id} IN
              /\ Cardinality(mine) = 1
              /\ \A i \in mine :
                    /\ orders[i].createdAt = Normalized(dbOrders[j].createdAt, clock)
                    /\ orders[i].updatedAt = Normalized(dbOrders[j].updatedAt, clock)
                    /\ orders[i].status = dbOrders[j].status
                    /\ orders[i].total = dbOrders[j].total
                    /\ orders[i].items = dbOrders[j].items
        /\ \A k, l \in 1..Len(orders) :
              k < l => orders[k].createdAt >= orders[l].createdAt

\* the fetch has resolved over two documents: the one stored first has a
\* creation timestamp, the one stored second has none, took the time of the
\* fetch and is therefore listed first
C13_Witness ==
    /\ sPc = "idle" /\ writes = <<>> /\ toasts["Failed to load orders"] = 0
    /\ Len(orders) = 2
    /\ dbOrders[2].createdAt.kind = "absent"
    /\ orders[1].id = dbOrders[2].id /\ orders[1].createdAt = clock
    /\ dbOrders[1].createdAt.kind = "timestamp"
    /\ orders[2].createdAt = 2000

\* the status select of the rendered order id offers t, and choosing it
\* starts updateOrderStatus(id, t)
CanSelect(id, t) == ENABLED StartUpdate(id, t, FALSE)

\* C14: whatever status s a displayed order has, every other status t of the
\* five can be chosen for it, and the call updateOrderStatus(id, t) it starts
\* sets the stored and the in-memory status to t when its write is accepted:
\* no transition is forbidden, no status is terminal.
C14_AnyTransition ==
    /\ [](\A id \in Rendered, t \in Statuses :
            (Len(writes) < MaxCalls /\ t # Displayed(OrderById(orders, id)))
                => CanSelect(id, t))
    /\ [][\A c \in calls : Succeeds(c) =>
            /\ OrderById(dbOrders', c.orderId).status = c.newStatus
            /\ OrderById(orders', c.orderId).status = c.newStatus]_vars

\* an order that was shipped has been set to delivered and then, by a call
\* made after the first one had ended (one event lies between the two calls),
\* from delivered to pending
C14_Witness ==
    /\ calls = {} /\ Len(writes) = 2
    /\ TimestampToDate(writes[2].data.updatedAt)
          = TimestampToDate(writes[1].data.updatedAt) + 2
    /\ toasts["Order status updated to"] = 2
    /\ writes[1].orderId = writes[2].orderId
    /\ writes[1].data.status = "delivered"
    /\ writes[2].data.status = "pending"
    /\ OrderById(dbOrders, writes[2].orderId).status = "pending"
    /\ OrderById(orders, writes[2].orderId).status = "pending"
    /\ OrderById(orders, writes[2].orderId).updatedAt = clock

\* the updateOrderStatus calls that have ended, by their notifications
Ended == toasts["Order status updated to"] + toasts["Failed to update order status"]

\* C18: a failed read of the orders collection is reported once as "Failed to
\* load orders", leaves the in-memory list as it was (empty: fetchOrders runs
\* on mount only) and is followed by no further read: none is in flight in any
\* later state. A failed status write is not sent again and not kept: every
\* write sent belongs to one call, and a call that has ended, accepted or
\* rejected, is pending no more.
C18_FailuresAreTerminal ==
    /\ toasts["Failed to load orders"] > 0 =>
          /\ toasts["Failed to load orders"] = 1
          /\ sPc = "idle" /\ ~loading
          /\ orders = <<>>
          /\ writes = <<>>
    /\ Len(writes) = Cardinality(calls) + Ended
    /\ \A c \in calls :
          /\ c.call \in 1..Len(writes)
          /\ writes[c.call].orderId = c.orderId
          /\ \A d \in calls : d.call = c.call => d = c

\* the read has failed and the filter has been used afterwards
C18_Witness ==
    /\ toasts["Failed to load orders"] = 1
    /\ sPc = "idle" /\ ~loading
    /\ selectedStatus # "all"
    /\ orders = <<>> /\ Len(dbOrders) > 0

\* of two calls one was rejected and one accepted, and the store does not
\* hold the status of the first write
C18_WitnessWrite ==
    /\ toasts["Failed to update order status"] = 1
    /\ toasts["Order status updated to"] = 1
    /\ Len(writes) = 2 /\ calls = {}
    /\ OrderById(dbOrders, writes[1].orderId).status # writes[1].data.status

\* C19: the loading indicator is on while the read of fetchOrders is in
\* flight; once the read has resolved, accepted or rejected, the indicator is
\* off; once off it is never on again; and, the read resolving at some time,
\* the indicator is eventually off for good.
C19_LoadingIndicator ==
    /\ [](sPc = "fetching" => loading)
    /\ [](sPc = "idle" => ~loading)
    /\ [][~loading => ~loading']_vars
    /\ <>[](~loading)

\* the read has resolved with orders, the indicator is off and the orders'
\* controls are on screen
C19_Witness ==
    /\ sPc = "idle" /\ ~loading
    /\ toasts["Failed to load orders"] = 0
    /\ Rendered # {}
    /\ selectedStatus = "cancelled"

----------------------------------------------------------------------------
(* Claims about two staff views *)

\* the step in which the second view's call c ends with its write accepted
PeerSucceeds(c) == c \in peerCalls /\ peerCalls' = {}

\* the store accepts the pending write of the first view's call c
Accepts(c) == ENABLED UpdateSucceeds(c)

\* the store accepts the pending write of the second view's call c
PeerAccepts(c) == ENABLED PeerUpdateSucceeds(c)

\* C15: with two staff views open, every pending status write of either view
\* is accepted whatever the store holds by then (no version check), and the
\* step that applies a write leaves the stored status at that write's value,
\* so the stored status is that of the write applied last.
C15_LastWriteWins ==
    /\ []((\A c \in calls : Accepts(c)) /\ (\A c \in peerCalls : PeerAccepts(c)))
    /\ [][/\ \A c \in calls : Succeeds(c) =>
                 OrderById(dbOrders', c.orderId).status = c.newStatus
          /\ \A c \in peerCalls : PeerSucceeds(c) =>
                 OrderById(dbOrders', c.orderId).status = c.newStatus]_vars

\* lost update: both views had the same order in the same status, each set it
\* to another status while the other's call was pending, both writes were
\* accepted, the second view's last; the store holds the second view's
\* status, the first view still shows its own
C15_Witness ==
    /\ calls = {} /\ Len(writes) = 1 /\ toasts["Order status updated to"] = 1
    /\ peerPc = "done"
    /\ LET id == writes[1].orderId
           mine == OrderById(orders, id)
           theirs == OrderById(peerOrders, id)
           doc == OrderById(dbOrders, id)
       IN  /\ mine.status = writes[1].data.status
           /\ theirs.status # mine.status
           /\ doc.status = theirs.status
           /\ doc.status # mine.status
           /\ theirs.updatedAt = clock
           /\ mine.updatedAt = clock - 1
           /\ TimestampToDate(writes[1].data.updatedAt) = clock - 3
           /\ TimestampToDate(doc.updatedAt) = clock - 2

----------------------------------------------------------------------------
(* Claims about uploadImage *)

IsImage == StartsWith(file.type, "image/")
TooLarge == file.size > 5 * 1024 * 1024

\* C20: for a file whose type does not begin with "image/", or whose size
\* exceeds 5 MB, no upload is ever started and the promise is rejected with
\* 'File must be an image', respectively (the type being an image type)
\* 'Image size must be less than 5MB'. For any other file one upload is
\* started and the promise settles exactly once: never twice, and eventually
\* once; it resolves only with the download URL of the uploaded object, after
\* the upload has completed, and otherwise rejects with the failure of the
\* upload or of the URL lookup.
C20_UploadImage ==
    /\ []((~IsImage \/ TooLarge) => uploads = <<>>)
    /\ []((~IsImage /\ upPc # "called") =>
            settled = <<Rejected("File must be an image")>>)
    /\ []((IsImage /\ TooLarge /\ upPc # "called") =>
            settled = <<Rejected("Image size must be less than 5MB")>>)
    /\ []((IsImage /\ ~TooLarge) =>
            /\ Len(settled) <= 1
            /\ Len(uploads) = (IF upPc = "called" THEN 0 ELSE 1)
            /\ \A i \in 1..Len(settled) :
                  \/ /\ settled[i].kind = "resolve"
                     /\ settled[i].url = DownloadURL(uploads[1])
                     /\ uploads[1] \in stored
                     /\ transferred = file.size
                  \/ /\ settled[i].kind = "reject"
                     /\ \/ settled[i].message = "Failed to upload image" /\ stored = {}
                        \/ settled[i].message = "Failed to get image URL"
                              /\ uploads[1] \in stored)
    /\ [][settled # <<>> => settled' = settled]_vars
    /\ <>(Len(settled) = 1)

\* an image of exactly the maximum size was uploaded after two progress
\* reports, and the promise resolved with the URL of the stored object
C20_Witness ==
    /\ IsImage /\ file.size = 5 * 1024 * 1024
    /\ upPc = "resolved"
    /\ Len(progress) = 2
    /\ settled = <<Resolved(DownloadURL(uploads[1]))>>
    /\ uploads[1] \in stored
    /\ uploads[1].folder = folder

----------------------------------------------------------------------------
(* Claims about the StaffDashboard view: absent status, overlapping calls,
   notifications *)

\* C21: a fetched order without a status field is treated as pending: it is
\* displayed as pending, it is in the displayed list when the filter
\* "pending" is selected, and it is in the displayed list of no other status.
C21_AbsentIsPending ==
    \A i \in 1..Len(orders) :
        orders[i].status = Absent =>
            LET shown == \E k \in 1..Len(StaffFilteredOrders) :
                            StaffFilteredOrders[k].id = orders[i].id
            IN  /\ Displayed(orders[i]) = "pending"
                /\ selectedStatus = "pending" => shown
                /\ selectedStatus \in Statuses \ {"pending"} => ~shown

\* C22: in one staff view, once every updateOrderStatus call of a sequence of
\* calls on distinct orders has ended with its write accepted, each order's
\* in-memory status is the status the store holds for it, also when a call
\* was started before an earlier one had ended.
C22_OverlappingCallsAgree ==
    (/\ calls = {} /\ Len(writes) > 0
     /\ toasts["Order status updated to"] = Len(writes)
     /\ \A i, j \in 1..Len(writes) : i # j => writes[i].orderId # writes[j].orderId)
        => \A i \in 1..Len(orders) :
              orders[i].status = OrderById(dbOrders, orders[i].id).status

\* C23: a success notification of a status update is emitted only after the
\* write of that update has been accepted, whichever control started it: so
\* the success notifications emitted on the Update button's behalf never
\* outnumber the accepted writes (each of which is announced once by "Order
\* status updated to"), and a call whose write is rejected has announced no
\* success.
C23_SuccessOnlyAfterWrite ==
    toasts["Order status updated"] <= toasts["Order status updated to"]

----------------------------------------------------------------------------
(* Claims about the Analytics view: the export's consistency, the selectors'
   frame, the top products *)

RECURSIVE RowTotals(_)
RowTotals(rows) ==
    IF rows = <<>> THEN 0 ELSE rows[1].total + RowTotals(Tail(rows))

\* C24: in every export the summary's Total Orders is the number of rows of
\* the Orders sheet and its Total Revenue is the sum of the Total column of
\* those rows.
C24_SummaryMatchesOrdersSheet ==
    workbook.built =>
        /\ workbook.summary.totalOrders = Len(workbook.ordersData)
        /\ workbook.summary.totalRevenue = RowTotals(workbook.ordersData)

\* a step of a selector change: the onChange handler, or a run of the effect
\* the change has scheduled
SelectorStep ==
    \/ filterMonth' # filterMonth
    \/ filterYear' # filterYear
    \/ effectPending /\ ~effectPending'

\* C25: a change of the month or year selector, and the recomputation it
\* causes, change at most total revenue and total orders: total customers,
\* total products, recent orders, top products and the fetched orders stay as
\* they are, the store is not written, and the position of the load does not
\* move (no read is issued).
C25_SelectorFrame ==
    [][SelectorStep =>
        /\ stats'.totalCustomers = stats.totalCustomers
        /\ stats'.totalProducts = stats.totalProducts
        /\ stats'.recentOrders = stats.recentOrders
        /\ stats'.topProducts = stats.topProducts
        /\ allOrders' = allOrders
        /\ <<dbOrders, dbUsers, dbProducts>>' = <<dbOrders, dbUsers, dbProducts>>
        /\ aPc' = aPc]_vars

\* after the load a month was selected and the effect has run: fewer orders
\* are counted than were fetched, the other stats are those of the load
C25_Witness ==
    /\ aPc = "done" /\ ~effectPending
    /\ filterMonth # AllSel
    /\ stats.totalOrders < Len(WithoutCancelled(allOrders))
    /\ stats.totalCustomers > 0 /\ stats.totalProducts > 0
    /\ stats.recentOrders # <<>> /\ stats.topProducts # <<>>
    /\ filtered = Selected(allOrders, filterMonth, filterYear)

----------------------------------------------------------------------------
(* Claims about the Registration page *)

\* a submit of the form: from the idle form, only handleRegister leaves
\* formData as it is
SubmitStep == rPc = "form" /\ formData' = formData

\* the check of handleRegister that fails first on the form's values, by its
\* message
FirstFailure ==
    IF formData.password # formData.confirmPassword THEN PasswordsDiffer
    ELSE IF Len(formData.password) < 6 THEN PasswordTooShort
    ELSE InvalidPhone

\* one of the three checks fails on the form's values
FailsACheck ==
    \/ formData.password # formData.confirmPassword
    \/ Len(formData.password) < 6
    \/ ~(HasPrefix(formData.phone, Plus63) /\ Len(formData.phone) = 13)

\* C26: a submit on which the confirmation differs from the password, the
\* password has fewer than 6 characters or the phone check fails creates no
\* account, writes no document, sends no email, sets the message of the first
\* check that fails (confirmation, then length, then phone) and leaves the
\* loading flag false
C26_RejectedSubmitHasNoEffect ==
    [][(SubmitStep /\ FailsACheck) =>
        /\ authUsers' = authUsers
        /\ currentUser' = currentUser
        /\ dbUsers' = dbUsers
        /\ userDocs' = userDocs
        /\ emails' = emails
        /\ error' = FirstFailure
        /\ ~regLoading /\ ~regLoading'
        /\ rPc' = "form"]_vars

\* C26 witness: a submit was rejected for the confirmation although the
\* password is short and the phone is incomplete as well; nothing was created
C26_Witness ==
    /\ rPc = "form"
    /\ error = PasswordsDiffer
    /\ formData.password # formData.confirmPassword
    /\ Len(formData.password) < 6
    /\ Len(formData.phone) # 13
    /\ ~regLoading
    /\ authUsers = {TakenEmail} /\ userDocs = {} /\ emails = {}

\* '+63' followed by exactly 10 digits
IsPhilippine(phone) ==
    /\ Len(phone) = 13
    /\ HasPrefix(phone, Plus63)
    /\ \A i \in 4..13 : phone[i] \in Digits

\* C27: handleRegister reaches the creation of the account only with a phone
\* value that is '+63' followed by exactly 10 digits
C27_OnlyPhilippineNumbersProceed ==
    rPc \in Awaiting => IsPhilippine(formData.phone)

\* C28: when no handleRegister is running, nobody is signed in and the loading
\* flag is false: a handleRegister that created an account has signed its
\* user out by the time it finishes, whether it succeeded or a later step
\* failed
C28_SignedOutWhenFinished ==
    rPc \in {"form", "done"} => currentUser = NoUser /\ ~regLoading

----------------------------------------------------------------------------
(* Claims about the ProductForm page *)

\* the fields of product data that break a rule of the form: trimmed name of
\* at least 2 characters, trimmed description of at least 10, price above 0,
\* a category, at least one image, every tag of at least 2 characters
FailingFields(p) ==
    {f \in {"name", "description", "price", "category", "images", "tags"} :
        \/ f = "name" /\ Len(Trim(p.name)) < 2
        \/ f = "description" /\ Len(Trim(p.description)) < 10
        \/ f = "price" /\ ~(p.price > 0)
        \/ f = "category" /\ p.category = ""
        \/ f = "images" /\ Len(p.images) < 1
        \/ f = "tags" /\ \E i \in 1..Len(p.tags) : Len(p.tags[i]) < 2}

\* a submit of the form: from the idle form, only handleSubmit leaves the
\* product and the image field as they are
FormSubmitStep == fPc = "form" /\ product' = product /\ imageUrl' = imageUrl

StoredIds == {dbProducts[i].id : i \in 1..Len(dbProducts)}

\* C29: every write to products carries data that passes the rules; a submit
\* of data that breaks a rule issues no write, records an error for exactly
\* the failing fields and does not navigate; a submit of data that passes
\* issues exactly one write, to the edited document or to a document with a
\* new identifier, and nothing else issues a write; the loading flag is false
\* whenever no submit is running
C29_SubmitWritesOnlyValidProducts ==
    /\ [](\A i \in 1..Len(productWrites) : FailingFields(productWrites[i].data) = {})
    /\ [](fPc \in {"form", "done"} => ~saving)
    /\ [][(FormSubmitStep /\ FailingFields(product) # {}) =>
            /\ productWrites' = productWrites
            /\ dbProducts' = dbProducts
            /\ formLocation' = formLocation
            /\ {e.field : e \in errors'} = FailingFields(product)
            /\ ~saving']_vars
    /\ [][(FormSubmitStep /\ FailingFields(product) = {}) =>
            /\ Len(productWrites') = Len(productWrites) + 1
            /\ SubSeq(productWrites', 1, Len(productWrites)) = productWrites
            /\ LET w == productWrites'[Len(productWrites')]
               IN  IF routeId # NoProductId
                   THEN w.docId = routeId
                   ELSE w.docId \notin StoredIds
                        /\ \A i \in 1..Len(productWrites) :
                              productWrites[i].docId # w.docId]_vars
    /\ [][~FormSubmitStep => productWrites' = productWrites]_vars

\* C29 witness: a submit was refused for a name that has 3 characters and 1
\* after trimming, and for the missing image; nothing was written and the form
\* is still shown
C29_Witness ==
    /\ fPc = "form"
    /\ Len(product.name) >= 2 /\ Len(Trim(product.name)) < 2
    /\ product.images = <<>>
    /\ {e.field : e \in errors} = FailingFields(product)
    /\ productWrites = <<>>
    /\ formLocation = "ProductForm"
    /\ ~saving

----------------------------------------------------------------------------
(* Claims about the Analytics view: the units behind the top products *)

\* the line items of the fetched orders that count: those of the orders that
\* are not cancelled, as pairs of order index and item index
CountedLines ==
    UNION {{<<k, n>> : n \in 1..Len(allOrders[k].items)}
           : k \in {j \in 1..Len(allOrders) : allOrders[j].status # "cancelled"}}

\* C30: after a successful load, whatever the selectors are set to, the
\* totalSold of every listed product is the sum of the quantities of the line
\* items of all fetched non-cancelled orders that refer to it, and a line item
\* that refers to an identifier outside the products collection is counted in
\* no entry
C30_TotalSoldCountsAllFetchedLines ==
    aPc = "done" =>
        /\ \A i \in 1..Len(stats.topProducts) :
              stats.topProducts[i].totalSold
                  = UnitsSold(allOrders, stats.topProducts[i].id)
        /\ \A ln \in CountedLines :
              LET pid == allOrders[ln[1]].items[ln[2]].productId IN
              pid \notin StoredIds =>
                  \A i \in 1..Len(stats.topProducts) : stats.topProducts[i].id # pid

\* C30 witness: the selectors leave out a counted order, the effect has run,
\* a listed product still shows the units of that order as well, and a counted
\* line item refers to a product that is not in the collection
C30_Witness ==
    /\ aPc = "done" /\ ~effectPending
    /\ filterMonth # AllSel
    /\ Len(filtered) < Len(WithoutCancelled(allOrders))
    /\ \E i \in 1..Len(stats.topProducts) :
          /\ stats.topProducts[i].totalSold > UnitsSold(filtered, stats.topProducts[i].id)
          /\ UnitsSold(filtered, stats.topProducts[i].id) > 0
    /\ \E ln \in CountedLines : allOrders[ln[1]].items[ln[2]].productId \notin StoredIds
====
